---- MODULE Spec2Model ----
(***************************************************************************)
(* A model of the SHSWorks TCP/IP session engine, class ShsClient of       *)
(* plico_interferometer/devices/SHSWorks_interface.py: connect, close,     *)
(* the with-statement protocol, send_command with its busy-state recovery, *)
(* and the receive loop of _send.                                          *)
(*                                                                         *)
(* Text (frames, answers, messages) is a sequence of tokens.  A token is a *)
(* string: one character, or a literal that the program only ever handles  *)
(* as a whole ("Start", the markers searched for in an answer).  The one   *)
(* exception is FILL, which stands for a run of FillLen characters 'a'.    *)
(***************************************************************************)
EXTENDS Integers, Sequences, FiniteSets, TLC

VARIABLES
    is_open,    \* self._is_open
    sockobj,    \* state of the socket held in self._sockobj
    nsock,      \* history: the socket in _sockobj is the nsock-th one held
    jid,        \* self.jid
    sent_last,  \* self.sent_last
    stack,      \* the send_command invocations in progress, innermost first
    answer,     \* the accumulator of _send's receive loop
    wire,       \* history: the frames written to a connected socket
    wsock,      \* history: for each of them, which socket (as nsock counts)
    answered,   \* history: which of them had their answer read to its CRLF
    base,       \* history: the frames written before the first state
    unsent,     \* history: send_command invocations that ended before a write
    call,       \* history: the send_command call in progress or just made,
                \* with the job counter, the frames written, the open flag
                \* and the sockets created when it began
    rcvd,       \* history: the answers that call has read
    result,     \* history: how the last call of the caller ended
    scope,      \* position of the caller relative to a with-statement
    wrap,       \* the convenience method in progress: its name and argument,
                \* the method it has called, its position, the frames written,
                \* the job counter, the sockets created and the open flag
                \* when it began, its send_command calls, and how it ended
    threads,    \* callers that share the session: whether they serialize
                \* their calls, and for each its position in send_command,
                \* its frame, the job counter it read, the answer it read,
                \* its calls so far, and how its last call ended
    inbound     \* the bytes the service has sent and the session has not
                \* read, and how many frames the service has answered

vars == <<is_open, sockobj, nsock, jid, sent_last, stack, answer, wire, wsock,
          answered, base, unsent, call, rcvd, result, scope, wrap, threads,
          inbound>>

-----------------------------------------------------------------------------
(* Bounds of the model. *)

\* send_command invocations (increments of the job counter) in a behaviour
MaxJobs == 3

\* nesting depth of the busy-state recovery
MaxDepth == 3

\* socket objects a session creates
MaxSockets == 3

-----------------------------------------------------------------------------
(* Program constants. *)

MAX_COMMAND_LENGTH == 4096

UNKNOWN_UC == "Unknown Command"

UNKNOWN_LC == "Unknown command"

BUSY == "SHSWorks blocked (live or static mode)!"

CLOSE_LIVE == 8

COMMANDS ==
    <<"test", "open_live", "grab_org", "grab_ref", "evaluation", "load_setup",
      "import_par", "get_pf_indices", "close_live", "get_cam_settings",
      "set_cam_setting", "tilt_cal_org", "tilt_cal_ref", "import_spot_data",
      "export_spot_data", "eval_spot_data", "select_field", "delete_fields",
      "center_sample", "get_center_sample_state", "get_pf_names",
      "get_shsworks_version", "get_first_zernike_index",
      "get_number_of_zernikes", "get_pf_values", "get_total_pf_result",
      "get_par", "set_par", "get_pf_item_value", "get_pf_item_result",
      "load_file", "save_file", "set_output_path", "set_output_name",
      "copy_data_from_to", "get_field_stats", "get_pf_item_use",
      "set_pf_item_use", "save_setup", "save_vcc_bmp",
      "save_radial_power_map", "get_radial_power_map_stats",
      "set_shs_freerun_state or get_shs_freerun_state", "open_cameras",
      "close_cameras", "set_improc_cfg_path">>

\* The keys of the COMMANDS dictionary: 0 .. 45.
COMMAND_KEYS == {k - 1 : k \in DOMAIN COMMANDS}

-----------------------------------------------------------------------------
(* Text. *)

CR == "\r"

LF == "\n"

PIPE == "|"

FILL == "a...a"

\* The longest argument that fits a frame with a three-digit job id and a
\* two-digit opcode: len('Start|jjj|mm|') + len(arg) + len('\r\n') = 4096.
FillLen == MAX_COMMAND_LENGTH - 15

Width(t) == IF t = FILL THEN FillLen ELSE Len(t)

RECURSIVE Length(_)
\* len(text)
Length(text) ==
    IF text = <<>> THEN 0 ELSE Width(Head(text)) + Length(Tail(text))

DIGITS == <<"0", "1", "2", "3", "4", "5", "6", "7", "8", "9">>

RECURSIVE Digits(_)
\* the decimal digits of n >= 0
Digits(n) ==
    IF n < 10 THEN <<DIGITS[n + 1]>>
    ELSE Append(Digits(n \div 10), DIGITS[(n % 10) + 1])

RECURSIVE ZeroPad(_, _)
ZeroPad(ds, w) == IF Len(ds) >= w THEN ds ELSE ZeroPad(<<"0">> \o ds, w)

\* '{:0wd}'.format(n): the sign, then the digits zero-padded to the width.
FormatD(n, w) ==
    IF n < 0 THEN <<"-">> \o ZeroPad(Digits(-n), w - 1)
    ELSE ZeroPad(Digits(n), w)

\* str(arg) of an argument: an int or a str.
Str(arg) == IF arg.type = "int" THEN FormatD(arg.v, 0) ELSE arg.v

DigitValue(c) == CHOOSE d \in 0..9 : DIGITS[d + 1] = c

RECURSIVE ParseDigits(_)
ParseDigits(ds) ==
    IF ds = <<>> THEN 0
    ELSE 10 * ParseDigits(SubSeq(ds, 1, Len(ds) - 1)) + DigitValue(ds[Len(ds)])

\* int(field) of a field written by FormatD.
ParseInt(field) ==
    IF field # <<>> /\ Head(field) = "-" THEN -ParseDigits(Tail(field))
    ELSE ParseDigits(field)

RECURSIVE SplitPipe(_)
\* text.split('|')
SplitPipe(text) ==
    IF \A i \in 1..Len(text) : text[i] # PIPE THEN <<text>>
    ELSE LET i == CHOOSE k \in 1..Len(text) :
                      text[k] = PIPE /\ \A m \in 1..(k - 1) : text[m] # PIPE
         IN <<SubSeq(text, 1, i - 1)>> \o SplitPipe(SubSeq(text, i + 1, Len(text)))

\* _split_answer of answer_processing: the pipe-delimited fields.
split_answer(text) == SplitPipe(text)

\* marker in text
Contains(text, marker) == \E i \in 1..Len(text) : text[i] = marker

\* text[-2:]
LastTwo(text) == SubSeq(text, IF Len(text) > 2 THEN Len(text) - 1 ELSE 1, Len(text))

\* text[:-2]
DropLastTwo(text) == SubSeq(text, 1, Len(text) - 2)

\* text[0:2]
FirstTwo(text) == SubSeq(text, 1, IF Len(text) < 2 THEN Len(text) ELSE 2)

-----------------------------------------------------------------------------
(* ShsClient._command_str, with self.jid passed as j. *)

RECURSIVE JoinArgs(_)
JoinArgs(args) ==
    IF args = <<>> THEN <<>>
    ELSE <<PIPE>> \o Str(Head(args)) \o JoinArgs(Tail(args))

\* A frame built from the job counter after its increment.
command_str_after_increment(j, mid, args) ==
    <<"Start", PIPE>> \o FormatD(j + 1, 3) \o <<PIPE>> \o FormatD(mid, 2)
        \o JoinArgs(args)
        \o (IF Len(args) = 0 THEN <<PIPE>> ELSE <<>>)
        \o <<CR, LF>>

\* A frame whose job-id field is kept at three digits by wrapping.
command_str_wrapping(j, mid, args) ==
    <<"Start", PIPE>> \o FormatD(j % 1000, 3) \o <<PIPE>> \o FormatD(mid, 2)
        \o JoinArgs(args)
        \o (IF Len(args) = 0 THEN <<PIPE>> ELSE <<>>)
        \o <<CR, LF>>

\* A frame that ends with '|' whatever the number of arguments.
command_str_trailing_pipe(j, mid, args) ==
    <<"Start", PIPE>> \o FormatD(j, 3) \o <<PIPE>> \o FormatD(mid, 2)
        \o JoinArgs(args)
        \o <<PIPE>>
        \o <<CR, LF>>

command_str(j, mid, args) ==
    <<"Start", PIPE>> \o FormatD(j, 3) \o <<PIPE>> \o FormatD(mid, 2)
        \o JoinArgs(args)
        \o (IF Len(args) = 0 THEN <<PIPE>> ELSE <<>>)
        \o <<CR, LF>>

\* int(s[2]) of ShsClient._last_command: the opcode field of frame sl.
last_mid(sl) == ParseInt(split_answer(sl)[3])

\* ShsClient._last_command with self.sent_last = sl, where the opcode is a
\* key of COMMANDS.
last_command(sl) == <<COMMANDS[last_mid(sl) + 1], "(): ">> \o DropLastTwo(sl)

\* An attribution that names the command and leaves out the text sent.
AttributedByNameOnly(kind, prefix, suffix, sl) ==
    IF last_mid(sl) \in COMMAND_KEYS
    THEN [kind |-> kind,
          val |-> prefix \o <<COMMANDS[last_mid(sl) + 1], "(): ">> \o suffix]
    ELSE [kind |-> "KeyError", val |-> FormatD(last_mid(sl), 0)]

\* An exception whose message embeds self._last_command(): building the
\* message raises KeyError when the opcode of sl is no key of COMMANDS.
Attributed(kind, prefix, suffix, sl) ==
    IF last_mid(sl) \in COMMAND_KEYS
    THEN [kind |-> kind, val |-> prefix \o last_command(sl) \o suffix]
    ELSE [kind |-> "KeyError", val |-> FormatD(last_mid(sl), 0)]

-----------------------------------------------------------------------------
(* The inputs of the model. *)

IntV(n) == [type |-> "int", v |-> n]

StrV(t) == [type |-> "str", v |-> t]

\* The send_command calls the caller makes: (mid, args).
Calls ==
    { <<IntV(16), <<IntV(42)>>>>,
      <<IntV(46), <<>>>>,
      <<IntV(5), <<StrV(<<FILL>>)>>>>,
      <<IntV(5), <<StrV(<<FILL, "a">>)>>>>,
      <<StrV(<<"1", "6">>), <<>>>> }

\* The job counter in the first state of the model: 0 in a new session; or
\* that of a session that was connected, has called test() so many times,
\* with a plain answer to each frame, and was closed.
JidStarts == {0, 998}

HEADER == <<"Stop", PIPE, "JID=001", PIPE, "OP=;ST=;SN=", PIPE>>

RespOk == HEADER \o <<"1", "=", "Ok", PIPE, "1", CR, LF>>

RespErr == HEADER \o <<"0", "=", "Error", PIPE, "msg", CR, LF>>

RespErr4 == HEADER \o <<"0", "=", "Error", CR, LF>>

RespUnkUC == HEADER \o <<"0", "=", UNKNOWN_UC, CR, LF>>

RespUnkLC == HEADER \o <<"1", "=", "Ok", PIPE, UNKNOWN_LC, CR, LF>>

RespBusy == HEADER \o <<"0", "=", BUSY, CR, LF>>

RespBusyOk == HEADER \o <<"1", "=", "Ok", PIPE, BUSY, CR, LF>>

RespBusyUnk == HEADER \o <<"0", "=", BUSY, PIPE, UNKNOWN_UC, CR, LF>>

RespShort == <<"Stop", PIPE, "JID=001", CR, LF>>

\* The answers the remote service gives.
Responses ==
    {RespOk, RespErr, RespErr4, RespUnkUC, RespUnkLC, RespBusy,
     RespBusyOk, RespBusyUnk, RespShort}

-----------------------------------------------------------------------------
(* The state after ShsClient.__init__; or, with a job counter j > 0, the    *)
(* state after connect(), j calls of test() and close().                   *)

NoCall ==
    [mid |-> IntV(0), args |-> <<>>, jid |-> 0, w0 |-> 0, open0 |-> FALSE, s0 |-> 0]

\* No convenience method is in progress.
Typed(t, v) == [type |-> t, v |-> v]

\* One caller owns the session: no callers share it.
NoThreads == [serialized |-> TRUE, t |-> <<>>]

\* Nothing to read on the socket.
NoInbound == [buf |-> <<>>, served |-> 0]

NoWrap ==
    [op |-> "none", arg |-> <<>>, inner |-> "none", pc |-> "idle", w0 |-> 0,
     j0 |-> 0, s0 |-> 0, open0 |-> FALSE,
     ncalls |-> 0, kind |-> "none", val |-> Typed("none", <<>>),
     list |-> Typed("none", <<>>)]

Init ==
    /\ jid \in JidStarts
    /\ is_open = FALSE
    /\ sockobj = IF jid = 0 THEN "fresh" ELSE "closed"
    /\ nsock = 1
    /\ sent_last = IF jid = 0 THEN <<>> ELSE command_str(jid - 1, 0, <<>>)
    /\ stack = <<>>
    /\ answer = <<>>
    /\ wire = <<>>
    /\ wsock = <<>>
    /\ answered = {}
    /\ base = jid
    /\ unsent = 0
    /\ call = NoCall
    /\ rcvd = <<>>
    /\ result = [op |-> "__init__", kind |-> "return", val |-> <<>>]
    /\ scope = "out"
    /\ wrap = NoWrap
    /\ threads = NoThreads
    /\ inbound = NoInbound

\* The caller is between two calls on a session that still exists.
Idle == stack = <<>> /\ result.op # "__del__"

\* A with-statement that was left is behind the caller at its next call.
NextScope == IF scope = "left" THEN "out" ELSE scope

Returned(op, val) == [op |-> op, kind |-> "return", val |-> val]

Raised(op, exc) == [op |-> op, kind |-> exc.kind, val |-> exc.val]

Pending == [op |-> "send_command", kind |-> "pending", val |-> <<>>]

-----------------------------------------------------------------------------
(* ShsClient.connect: what a call can do to (_is_open, _sockobj), and the   *)
(* exception it raises.  A refused connection leaves the new, unconnected   *)
(* socket in _sockobj.                                                      *)

\* The refusal as the operating system reports it, without the guidance.
REFUSED_AS_RAISED_BY_SOCKET ==
    [kind |-> "ConnectionRefusedError", val |-> <<"[Errno 111] Connection refused">>]

REFUSED ==
    [kind |-> "ConnectionRefusedError",
     val |-> <<"Please check if SHSWorks is running, TCP/IP is enabled and port is ",
               "server_port">>]

NoExc == [kind |-> "none", val |-> <<>>]

\* A connect() that makes a new connection also when the flag is set.
connect_anew ==
    IF nsock >= MaxSockets THEN {}
    ELSE {[open |-> TRUE, sock |-> "connected", nsock |-> nsock + 1, exc |-> NoExc],
          [open |-> FALSE, sock |-> "fresh", nsock |-> nsock + 1, exc |-> REFUSED]}

connect ==
    IF is_open
    THEN {[open |-> TRUE, sock |-> sockobj, nsock |-> nsock, exc |-> NoExc]}
    ELSE IF nsock >= MaxSockets THEN {}
    ELSE {[open |-> TRUE, sock |-> "connected", nsock |-> nsock + 1, exc |-> NoExc],
          [open |-> FALSE, sock |-> "fresh", nsock |-> nsock + 1, exc |-> REFUSED]}

\* socket.send on a socket in state st: the frame is written, or an error.
\* After a reset by the peer the error is EPIPE or ECONNRESET, by platform.
socket_send(st) ==
    CASE st = "connected" -> {"sent"}
      [] st = "reset" -> {"ConnectionResetError", "BrokenPipeError"}
      [] st = "fresh" -> {"BrokenPipeError"}
      [] OTHER -> {"OSError"}

Connect ==
    /\ Idle
    /\ \E c \in connect :
        /\ is_open' = c.open
        /\ sockobj' = c.sock
        /\ nsock' = c.nsock
        /\ result' = IF c.exc = NoExc THEN Returned("connect", <<>>)
                     ELSE Raised("connect", c.exc)
    /\ scope' = NextScope
    /\ UNCHANGED <<jid, sent_last, stack, answer, wire, wsock, answered, base, unsent>>
    /\ call' = NoCall
    /\ rcvd' = <<>>
    /\ UNCHANGED <<wrap, threads, inbound>>

-----------------------------------------------------------------------------
(* ShsClient.__del__ and ShsClient.close. *)

\* A close() that starts the job counter again.
CloseResettingJid ==
    /\ Idle
    /\ is_open' = FALSE
    /\ sockobj' = "closed"
    /\ jid' = 0
    /\ result' = [op |-> "close", kind |-> "return", val |-> <<>>]
    /\ scope' = IF scope = "left" THEN "out" ELSE scope
    /\ call' = NoCall
    /\ rcvd' = <<>>
    /\ UNCHANGED <<nsock, sent_last, stack, answer, wire, wsock, answered, base, unsent>>
    /\ UNCHANGED <<wrap, threads, inbound>>

\* A close() that closes the socket only when the open flag is set.
CloseIfOpen ==
    /\ Idle
    /\ is_open' = FALSE
    /\ sockobj' = IF is_open THEN "closed" ELSE sockobj
    /\ result' = Returned("close", <<>>)
    /\ scope' = NextScope
    /\ UNCHANGED <<nsock, jid, sent_last, stack, answer, wire, wsock, answered, base, unsent>>
    /\ call' = NoCall
    /\ rcvd' = <<>>
    /\ UNCHANGED <<wrap, threads, inbound>>

Close ==
    /\ Idle
    /\ is_open' = FALSE
    /\ sockobj' = "closed"
    /\ result' = Returned("close", <<>>)
    /\ scope' = NextScope
    /\ UNCHANGED <<nsock, jid, sent_last, stack, answer, wire, wsock, answered, base, unsent>>
    /\ call' = NoCall
    /\ rcvd' = <<>>
    /\ UNCHANGED <<wrap, threads, inbound>>

\* The session is destroyed: no call follows.
Del ==
    /\ Idle
    /\ is_open' = FALSE
    /\ sockobj' = "closed"
    /\ result' = Returned("__del__", <<>>)
    /\ scope' = NextScope
    /\ UNCHANGED <<nsock, jid, sent_last, stack, answer, wire, wsock, answered, base, unsent>>
    /\ call' = NoCall
    /\ rcvd' = <<>>
    /\ UNCHANGED <<wrap, threads, inbound>>

-----------------------------------------------------------------------------
(* ShsClient.__enter__ and ShsClient.__exit__. *)

Enter ==
    /\ Idle
    /\ scope # "in"
    /\ \E c \in connect :
        /\ is_open' = c.open
        /\ sockobj' = c.sock
        /\ nsock' = c.nsock
        /\ result' = IF c.exc = NoExc THEN Returned("__enter__", <<>>)
                     ELSE Raised("__enter__", c.exc)
        /\ scope' = IF c.exc = NoExc THEN "in" ELSE "out"
    /\ UNCHANGED <<jid, sent_last, stack, answer, wire, wsock, answered, base, unsent>>
    /\ call' = NoCall
    /\ rcvd' = <<>>
    /\ UNCHANGED <<wrap, threads, inbound>>

\* The with-block is left, normally or by an exception of a call in it.
Exit ==
    /\ Idle
    /\ scope = "in"
    /\ is_open' = FALSE
    /\ sockobj' = IF is_open THEN "closed" ELSE sockobj
    /\ result' = Returned("__exit__", <<>>)
    /\ scope' = "left"
    /\ UNCHANGED <<nsock, jid, sent_last, stack, answer, wire, wsock, answered, base, unsent>>
    /\ call' = NoCall
    /\ rcvd' = <<>>
    /\ UNCHANGED <<wrap, threads, inbound>>

-----------------------------------------------------------------------------
(* ShsClient.send_command. *)

TOO_LONG(message) ==
    [kind |-> "ValueError",
     val |-> <<"The maximum command length is ">> \o FormatD(MAX_COMMAND_LENGTH, 0)
             \o <<". The command ">> \o message \o <<" is too long.">>]

NOT_INT == [kind |-> "TypeError", val |-> <<"mid must be of type int.">>]

CONNECTION_LOST(sl) ==
    Attributed("ConnectionResetError", <<"Connection lost during method ">>, <<>>, sl)

UNKNOWN_COMMAND(sl) ==
    Attributed("UnknownCommandError", <<"Unknown command: ">>, <<>>, sl)

\* An SHSWorksError whose message leaves out the field after the error code.
SHSWORKS_ERROR_CODE_ONLY(sl, answer_split) ==
    Attributed("SHSWorksError", <<"during method ">>, <<LF>> \o answer_split[4], sl)

\* SHSWorksError: the error code, and the field after it when there is one.
SHSWORKS_ERROR(sl, answer_split) ==
    LET error_code == answer_split[4]
        warning_message ==
            IF Len(answer_split) >= 5
            THEN error_code \o <<" ">> \o answer_split[5]
            ELSE error_code
    IN Attributed("SHSWorksError", <<"during method ">>, <<LF>> \o warning_message, sl)

\* An exception leaves every send_command invocation in progress.
Raise(exc) ==
    /\ stack' = <<>>
    /\ answer' = <<>>
    /\ result' = Raised("send_command", exc)

\* The exception send_command raises for the error e of socket.send: only
\* ConnectionResetError is caught and raised again with the attribution.
SendError(e, sl) ==
    IF e = "ConnectionResetError" THEN CONNECTION_LOST(sl)
    ELSE [kind |-> e, val |-> <<>>]

\* A job counter that is advanced only for a frame that passes the length
\* check.
jid_after_length_check(message) ==
    IF Length(message) > MAX_COMMAND_LENGTH THEN jid ELSE jid + 1

\* self.jid += 1, once the frame is built and before its length is checked.
jid_incremented(message) == jid + 1

\* A send_command that writes to the socket the session holds, without the
\* connect of line 121.
InvokeWithoutConnect(mid, args, rest) ==
    LET message == command_str(jid, mid, args) IN
    /\ jid - base < MaxJobs
    /\ jid' = jid_incremented(message)
    /\ UNCHANGED <<is_open, sockobj, nsock>>
    /\ IF Length(message) > MAX_COMMAND_LENGTH
       THEN /\ Raise(TOO_LONG(message))
            /\ unsent' = unsent + 1
            /\ UNCHANGED <<sent_last, wire, wsock>>
       ELSE /\ sent_last' = message
            /\ \E e \in socket_send(sockobj) :
                IF e = "sent"
                THEN /\ wire' = Append(wire, message)
                     /\ wsock' = Append(wsock, nsock)
                     /\ stack' = <<[mid |-> mid, args |-> args]>> \o rest
                     /\ answer' = <<>>
                     /\ result' = Pending
                     /\ unsent' = unsent
                ELSE /\ Raise(SendError(e, message))
                     /\ unsent' = unsent + 1
                     /\ UNCHANGED <<wire, wsock>>

\* A length check that also rejects a frame of the maximum length.
too_long_at_limit(message) == Length(message) >= MAX_COMMAND_LENGTH

\* len(message) > self.MAX_COMMAND_LENGTH
too_long(message) == Length(message) > MAX_COMMAND_LENGTH

\* send_command(mid, *args) with mid an int, from the frame's construction
\* to the write in _send, called with the invocations in rest in progress:
\* it raises, or is left blocked in the receive loop of _send.
Invoke(mid, args, rest) ==
    LET message == command_str(jid, mid, args) IN
    /\ jid - base < MaxJobs
    /\ jid' = jid_incremented(message)
    /\ IF too_long(message)
       THEN /\ Raise(TOO_LONG(message))
            /\ unsent' = unsent + 1
            /\ UNCHANGED <<is_open, sockobj, nsock, sent_last, wire, wsock>>
       ELSE \E c \in connect :
            /\ is_open' = c.open
            /\ sockobj' = c.sock
            /\ nsock' = c.nsock
            /\ IF c.exc # NoExc
               THEN /\ Raise(c.exc)
                    /\ unsent' = unsent + 1
                    /\ UNCHANGED <<sent_last, wire, wsock>>
               ELSE /\ sent_last' = message
                    /\ \E e \in socket_send(c.sock) :
                        IF e = "sent"
                        THEN /\ wire' = Append(wire, message)
                             /\ wsock' = Append(wsock, c.nsock)
                             /\ stack' = <<[mid |-> mid, args |-> args]>> \o rest
                             /\ answer' = <<>>
                             /\ result' = Pending
                             /\ unsent' = unsent
                        ELSE /\ Raise(SendError(e, message))
                             /\ unsent' = unsent + 1
                             /\ UNCHANGED <<wire, wsock>>

\* A send_command that advances the job counter before it checks the type
\* of the opcode.
SendCommandCountingFirst(mid, args) ==
    /\ Idle
    /\ scope' = NextScope
    /\ base' = base
    /\ answered' = answered
    /\ call' = [mid |-> mid, args |-> args, jid |-> jid, w0 |-> Len(wire),
                open0 |-> is_open, s0 |-> nsock]
    /\ rcvd' = <<>>
    /\ IF mid.type # "int"
       THEN /\ jid - base < MaxJobs
            /\ jid' = jid + 1
            /\ result' = Raised("send_command", NOT_INT)
            /\ UNCHANGED <<is_open, sockobj, nsock, sent_last, stack, answer,
                           wire, wsock, unsent>>
       ELSE Invoke(mid.v, args, <<>>)

\* send_command(mid, *args) called between two calls, by the caller or by a
\* convenience method.
send_command(mid, args) ==
    /\ Idle
    /\ scope' = NextScope
    /\ base' = base
    /\ answered' = answered
    /\ call' = [mid |-> mid, args |-> args, jid |-> jid, w0 |-> Len(wire),
                open0 |-> is_open, s0 |-> nsock]
    /\ rcvd' = <<>>
    /\ IF mid.type # "int"
       THEN /\ result' = Raised("send_command", NOT_INT)
            /\ UNCHANGED <<is_open, sockobj, nsock, jid, sent_last, stack, answer,
                           wire, wsock, unsent>>
       ELSE Invoke(mid.v, args, <<>>)

\* The caller calls send_command directly.
SendCommand(mid, args) ==
    /\ send_command(mid, args)
    /\ UNCHANGED <<wrap, threads, inbound>>

HasUnknown(ans) == Contains(ans, UNKNOWN_UC) \/ Contains(ans, UNKNOWN_LC)

HasBusy(ans) == Contains(ans, BUSY)

\* A send_command that hands the answer of close_live() to its own caller
\* and does not send its command again.
ReturnWithoutRetransmission(ans, rest) ==
    /\ stack' = <<>>
    /\ answer' = <<>>
    /\ result' = Returned("send_command", ans)
    /\ UNCHANGED <<is_open, sockobj, nsock, jid, sent_last, wire, wsock, unsent>>

\* A send_command that returns the answer without its CRLF.
ReturnWithoutCRLF(ans, rest) ==
    IF rest = <<>>
    THEN /\ stack' = <<>>
         /\ answer' = <<>>
         /\ result' = Returned("send_command", DropLastTwo(ans))
         /\ UNCHANGED <<is_open, sockobj, nsock, jid, sent_last, wire, wsock, unsent>>
    ELSE Invoke(Head(rest).mid, Head(rest).args, Tail(rest))

\* send_command returns ans: to the caller, or to the close_live() of the
\* invocation below, which drops it and calls send_command again with its
\* own opcode and arguments.
Return(ans, rest) ==
    IF rest = <<>>
    THEN /\ stack' = <<>>
         /\ answer' = <<>>
         /\ result' = Returned("send_command", ans)
         /\ UNCHANGED <<is_open, sockobj, nsock, jid, sent_last, wire, wsock, unsent>>
    ELSE Invoke(Head(rest).mid, Head(rest).args, Tail(rest))

\* A recovery that gives up with a busy error at the second nested level.
RecoverBounded(stk) ==
    IF Len(stk) >= 2
    THEN /\ Raise([kind |-> "StillBusy", val |-> <<>>])
         /\ UNCHANGED <<is_open, sockobj, nsock, jid, sent_last, wire, wsock, unsent>>
    ELSE Invoke(CLOSE_LIVE, <<>>, stk)

\* The busy-state recovery of the invocations stk, the innermost of which
\* has read the busy marker: self.close_live(), that is send_command(8),
\* whatever the depth.
Recover(stk) ==
    /\ Len(stk) < MaxDepth
    /\ Invoke(CLOSE_LIVE, <<>>, stk)

\* A send_command whose recovery goes on to the retransmission when the
\* answer to the stop-live-mode frame has an error code other than '1='.
ProcessForgivingStopLive(ans) ==
    LET answer_split == split_answer(ans) IN
    IF HasUnknown(ans)
    THEN /\ Raise(UNKNOWN_COMMAND(sent_last))
         /\ UNCHANGED <<is_open, sockobj, nsock, jid, sent_last, wire, wsock, unsent>>
    ELSE IF HasBusy(ans)
    THEN Recover(stack)
    ELSE IF Len(answer_split) < 4
    THEN /\ Raise([kind |-> "IndexError", val |-> <<"list index out of range">>])
         /\ UNCHANGED <<is_open, sockobj, nsock, jid, sent_last, wire, wsock, unsent>>
    ELSE IF FirstTwo(answer_split[4]) # <<"1", "=">> /\ Len(stack) < 2
    THEN /\ Raise(SHSWORKS_ERROR(sent_last, answer_split))
         /\ UNCHANGED <<is_open, sockobj, nsock, jid, sent_last, wire, wsock, unsent>>
    ELSE Return(ans, Tail(stack))

\* A send_command whose errors name the first frame the call wrote.
ProcessBlamingFirstFrame(ans) ==
    LET answer_split == split_answer(ans) IN
    IF HasUnknown(ans)
    THEN /\ Raise(UNKNOWN_COMMAND(wire[call.w0 + 1]))
         /\ UNCHANGED <<is_open, sockobj, nsock, jid, sent_last, wire, wsock, unsent>>
    ELSE IF HasBusy(ans)
    THEN Recover(stack)
    ELSE IF Len(answer_split) < 4
    THEN /\ Raise([kind |-> "IndexError", val |-> <<"list index out of range">>])
         /\ UNCHANGED <<is_open, sockobj, nsock, jid, sent_last, wire, wsock, unsent>>
    ELSE IF FirstTwo(answer_split[4]) # <<"1", "=">>
    THEN /\ Raise(SHSWORKS_ERROR(wire[call.w0 + 1], answer_split))
         /\ UNCHANGED <<is_open, sockobj, nsock, jid, sent_last, wire, wsock, unsent>>
    ELSE Return(ans, Tail(stack))

\* A send_command that rejects an answer whose echoed job id is not that of
\* the frame sent.
ProcessCheckingJobId(ans) ==
    LET answer_split == split_answer(ans) IN
    IF HasUnknown(ans)
    THEN /\ Raise(UNKNOWN_COMMAND(sent_last))
         /\ UNCHANGED <<is_open, sockobj, nsock, jid, sent_last, wire, wsock, unsent>>
    ELSE IF HasBusy(ans)
    THEN Recover(stack)
    ELSE IF answer_split[2] # <<"JID=001">> \/ ParseInt(split_answer(sent_last)[2]) # 1
    THEN /\ Raise([kind |-> "UnexpectedAnswerFormatError", val |-> answer_split[2]])
         /\ UNCHANGED <<is_open, sockobj, nsock, jid, sent_last, wire, wsock, unsent>>
    ELSE IF Len(answer_split) < 4
    THEN /\ Raise([kind |-> "IndexError", val |-> <<"list index out of range">>])
         /\ UNCHANGED <<is_open, sockobj, nsock, jid, sent_last, wire, wsock, unsent>>
    ELSE IF FirstTwo(answer_split[4]) # <<"1", "=">>
    THEN /\ Raise(SHSWORKS_ERROR(sent_last, answer_split))
         /\ UNCHANGED <<is_open, sockobj, nsock, jid, sent_last, wire, wsock, unsent>>
    ELSE Return(ans, Tail(stack))

\* send_command from the answer of _send on.
Process(ans) ==
    LET answer_split == split_answer(ans) IN
    IF HasUnknown(ans)
    THEN /\ Raise(UNKNOWN_COMMAND(sent_last))
         /\ UNCHANGED <<is_open, sockobj, nsock, jid, sent_last, wire, wsock, unsent>>
    ELSE IF HasBusy(ans)
    THEN Recover(stack)
    ELSE IF Len(answer_split) < 4
    THEN /\ Raise([kind |-> "IndexError", val |-> <<"list index out of range">>])
         /\ UNCHANGED <<is_open, sockobj, nsock, jid, sent_last, wire, wsock, unsent>>
    ELSE IF FirstTwo(answer_split[4]) # <<"1", "=">>
    THEN /\ Raise(SHSWORKS_ERROR(sent_last, answer_split))
         /\ UNCHANGED <<is_open, sockobj, nsock, jid, sent_last, wire, wsock, unsent>>
    ELSE Return(ans, Tail(stack))

\* The receive loop of _send reads the answer ans, which ends in CRLF, and
\* send_command goes on with it.
RecvAnswer(ans) ==
    /\ stack # <<>>
    /\ sockobj = "connected"
    /\ LastTwo(answer \o ans) = <<CR, LF>>
    /\ rcvd' = Append(rcvd, answer \o ans)
    /\ answered' = answered \cup {Len(wire)}
    /\ Process(answer \o ans)
    /\ UNCHANGED <<base, call, scope>>
    /\ UNCHANGED <<wrap, threads, inbound>>

\* A receive loop that gives up on a connection that stays established.
RecvTimedOut ==
    /\ stack # <<>>
    /\ sockobj = "connected"
    /\ sockobj' = sockobj
    /\ Raise([kind |-> "timeout", val |-> <<"timed out">>])
    /\ UNCHANGED <<is_open, nsock, jid, sent_last, wire, wsock, answered, base, unsent,
                   call, rcvd, scope>>
    /\ UNCHANGED <<wrap, threads, inbound>>

\* The peer resets the connection while _send waits in recv.
RecvReset ==
    /\ stack # <<>>
    /\ sockobj = "connected"
    /\ sockobj' = "reset"
    /\ Raise(CONNECTION_LOST(sent_last))
    /\ UNCHANGED <<is_open, nsock, jid, sent_last, wire, wsock, answered, base, unsent,
                   call, rcvd, scope>>
    /\ UNCHANGED <<wrap, threads, inbound>>

\* The peer sends the first k tokens of an answer and shuts the connection
\* down in order: no reset.
RecvPartial(ans, k) ==
    /\ stack # <<>>
    /\ sockobj = "connected"
    /\ sockobj' = "eof"
    /\ answer' = answer \o SubSeq(ans, 1, k)
    /\ UNCHANGED <<is_open, nsock, jid, sent_last, stack, wire, wsock, answered, base,
                   unsent, call, rcvd, result, scope>>
    /\ UNCHANGED <<wrap, threads, inbound>>

\* recv on a connection the peer has shut down returns b'': the loop of
\* _send appends it and tests the accumulator again.
RecvZero ==
    /\ stack # <<>>
    /\ sockobj = "eof"
    /\ LastTwo(answer) # <<CR, LF>>
    /\ answer' = answer \o <<>>
    /\ UNCHANGED <<is_open, sockobj, nsock, jid, sent_last, stack, wire, wsock,
                   answered, base, unsent, call, rcvd, result, scope>>
    /\ UNCHANGED <<wrap, threads, inbound>>

-----------------------------------------------------------------------------

Next ==
    \/ Connect
    \/ Close
    \/ Del
    \/ Enter
    \/ Exit
    \/ \E c \in Calls : SendCommand(c[1], c[2])
    \/ \E ans \in Responses : RecvAnswer(ans)
    \/ RecvReset
    \/ \E k \in {0, 2} : RecvPartial(RespOk, k)
    \/ RecvZero

Spec == Init /\ [][Next]_vars

-----------------------------------------------------------------------------
(* The convenience methods get_pf_indices, get_pf_names, get_pf_values and  *)
(* get_par: each calls send_command and decodes the answer; the pass/fail   *)
(* methods call _check_pass_fail_config, and through it get_par, when the   *)
(* decoded list is empty.                                                   *)

PF_OFF == <<"The Passfail evaluation is turned off.">>

PF_NONE == <<"No Passfail items are selected.">>

B_PASS_FAIL == <<"bPassFail">>

PF_METHODS == {"get_pf_indices", "get_pf_names", "get_pf_values"}

\* The opcode each pass/fail method sends.
pf_mid(op) ==
    CASE op = "get_pf_indices" -> 7
      [] op = "get_pf_names" -> 20
      [] op = "get_pf_values" -> 24

GET_PAR == 26

STRING_PARS == {<<"cpOperator">>, <<"cpSampleSerialNumber">>, <<"cpSampleType">>}

PATH_PARS == {<<"cpAPP_ImgProc_DXFFile">>, <<"cpRAYFile">>}

\* The parameter names the caller asks for.
Pars ==
    {<<"cpOperator">>, <<"cpSampleType">>, <<"cpRAYFile">>, B_PASS_FAIL,
     <<"nAverage">>}

\* The convenience methods the caller calls: (method, argument).
Methods ==
    {<<op, <<>>>> : op \in PF_METHODS} \cup {<<"get_par", p>> : p \in Pars}

\* Answers with a payload of one number, of zero, of nothing, of text and
\* of two numbers.
RespZero == HEADER \o <<"1", "=", "Ok", PIPE, "0", CR, LF>>

RespEmpty == HEADER \o <<"1", "=", "Ok", PIPE, CR, LF>>

RespText == HEADER \o <<"1", "=", "Ok", PIPE, "a", "b", CR, LF>>

RespTwo == HEADER \o <<"1", "=", "Ok", PIPE, "1", ",", "2", CR, LF>>

WrapResponses == {RespOk, RespZero, RespEmpty, RespText, RespTwo, RespErr, RespBusy}

\* How a method ends: by returning val or by raising an exception of kind.
Out(kind, val) == [kind |-> kind, val |-> val]

\* The trailing payload field of an answer, without its line end.
get_result(ans) ==
    LET f == split_answer(ans)
    IN IF Len(f) < 5 THEN <<>>
       ELSE IF LastTwo(f[5]) = <<CR, LF>> THEN DropLastTwo(f[5]) ELSE f[5]

\* The items of a comma- or space-separated payload.
Items(payload) == SelectSeq(payload, LAMBDA t : t \notin {",", " "})

IsNumber(value) ==
    /\ value # <<>>
    /\ \A i \in 1..Len(value) : \E d \in 1..10 : DIGITS[d] = value[i]

\* _to_number(value): numeric literal parsing; another token is a decode
\* error.
to_number(value) ==
    IF IsNumber(value) THEN Out("return", Typed("int", ParseInt(value)))
    ELSE Out("ValueError", Typed("exc", value))

\* read_out_numbers(answer): an empty payload yields an empty list.
read_out_numbers(ans) ==
    LET it == Items(get_result(ans))
    IN IF \A i \in 1..Len(it) : IsNumber(<<it[i]>>)
       THEN Out("return", Typed("list", [i \in 1..Len(it) |-> ParseInt(<<it[i]>>)]))
       ELSE Out("ValueError", Typed("exc", get_result(ans)))

\* read_out_list(answer): an empty payload yields an empty list.
read_out_list(ans) == Out("return", Typed("list", Items(get_result(ans))))

\* read_out_parameter(par, answer): the payload, as text.
read_out_parameter(par, ans) == get_result(ans)

\* bool(value) of a value get_par returns.
bool(val) ==
    CASE val.type = "int" -> val.v # 0
      [] val.type = "Path" -> TRUE
      [] OTHER -> val.v # <<>>

\* A get_par that decodes the empty value by the classification of the
\* name as well.
get_par_classifying_empty(par, res) ==
    IF res.kind # "return" THEN Out(res.kind, Typed("exc", res.val))
    ELSE LET value == read_out_parameter(par, res.val)
         IN IF par \in STRING_PARS THEN Out("return", Typed("str", value))
            ELSE IF par \in PATH_PARS THEN Out("return", Typed("Path", value))
            ELSE to_number(value)

\* get_par(par) once its send_command(26, par) has ended with res: an
\* exception of send_command propagates, an answer is decoded.
get_par(par, res) ==
    IF res.kind # "return" THEN Out(res.kind, Typed("exc", res.val))
    ELSE LET value == read_out_parameter(par, res.val)
         IN IF value = <<>> THEN Out("return", Typed("str", value))
            ELSE IF par \in STRING_PARS THEN Out("return", Typed("str", value))
            ELSE IF par \in PATH_PARS THEN Out("return", Typed("Path", value))
            ELSE to_number(value)

\* A _check_pass_fail_config that raises only when the evaluation is
\* turned off.
check_pass_fail_config_only_when_off(out) ==
    IF out.kind # "return" THEN out
    ELSE IF ~bool(out.val) THEN Out("UserWarning", Typed("exc", PF_OFF))
    ELSE out

\* _check_pass_fail_config once its get_par('bPassFail') has ended with out.
check_pass_fail_config(out) ==
    IF out.kind # "return" THEN out
    ELSE IF ~bool(out.val) THEN Out("UserWarning", Typed("exc", PF_OFF))
    ELSE Out("UserWarning", Typed("exc", PF_NONE))

\* The decoder of each pass/fail method.
pf_decode(op, ans) ==
    IF op = "get_pf_names" THEN read_out_list(ans) ELSE read_out_numbers(ans)

\* The method ends with out.
Finish(out) == [wrap EXCEPT !.pc = "done", !.kind = out.kind, !.val = out.val]

\* The caller calls a convenience method between two calls.
CallMethod(op, arg) ==
    /\ Idle
    /\ wrap.pc \in {"idle", "done"}
    /\ jid - base < MaxJobs
    /\ wrap' = [NoWrap EXCEPT !.op = op, !.arg = arg, !.pc = "call",
                              !.w0 = Len(wire), !.j0 = jid, !.s0 = nsock,
                              !.open0 = is_open, !.kind = "pending"]
    /\ UNCHANGED <<is_open, sockobj, nsock, jid, sent_last, stack, answer,
                   wire, wsock, answered, base, unsent, call, rcvd, result,
                   scope, threads, inbound>>

\* The convenience methods that check their arguments before they call
\* send_command, with the opcode each sends.
VALIDATED ==
    {"load_setup", "set_cam_setting", "select_field", "get_pf_item_value",
     "copy_data_from_to", "get_field_stats", "set_pf_item_use"}

validated_mid(op) ==
    CASE op = "load_setup" -> 5
      [] op = "set_cam_setting" -> 10
      [] op = "select_field" -> 16
      [] op = "get_pf_item_value" -> 28
      [] op = "copy_data_from_to" -> 34
      [] op = "get_field_stats" -> 35
      [] op = "set_pf_item_use" -> 37

SETTING_LIST ==
    {<<"BUS">>, <<"CAM">>, <<"TRI">>, <<"ASH">>, <<"AVE">>, <<"SHU">>, <<"BRI">>,
     <<"GAI">>, <<"TEM">>}

CAMERAS == {<<"SHS">>, <<"VCC">>, <<"SVC">>}

ArgError(kind, text) == [kind |-> kind, val |-> Typed("exc", text)]

\* An argument check that tests the types of the arguments and not their
\* values.
arg_error_types_only(op, a) ==
    CASE op = "load_setup" ->
            IF a[1].type # "str"
            THEN ArgError("TypeError", <<"setup_name must be of type str.">>)
            ELSE NoExc
      [] op = "set_cam_setting" -> NoExc
      [] op = "select_field" ->
            IF a[1].type # "int"
            THEN ArgError("TypeError", <<"fieldID must be of type int.">>)
            ELSE NoExc
      [] op = "get_pf_item_value" ->
            IF a[1].type # "int"
            THEN ArgError("TypeError", <<"pfno must be of type int.">>)
            ELSE NoExc
      [] op = "copy_data_from_to" ->
            IF a[1].type # "int"
            THEN ArgError("TypeError", <<"from_field should be of type int">>)
            ELSE IF a[2].type # "int"
            THEN ArgError("TypeError", <<"to_field should be of type int">>)
            ELSE NoExc
      [] op = "get_field_stats" ->
            IF a[1].type # "int"
            THEN ArgError("TypeError", <<"fieldID must be an int.">>)
            ELSE NoExc
      [] op = "set_pf_item_use" ->
            IF a[1].type # "int"
            THEN ArgError("TypeError", <<"pfID must be of type int.">>)
            ELSE NoExc

\* The checks a method makes on its arguments a before anything else: the
\* exception it raises, or NoExc.
arg_error(op, a) ==
    CASE op = "load_setup" ->
            IF a[1].type # "str"
            THEN ArgError("TypeError", <<"setup_name must be of type str.">>)
            ELSE NoExc
      [] op = "set_cam_setting" ->
            IF a[2].type # "str" \/ a[2].v \notin SETTING_LIST
            THEN ArgError("KeyError", <<"The token ">> \o Str(a[2]) \o <<" is not valid.">>)
            ELSE IF a[1].type # "str" \/ a[1].v \notin CAMERAS
            THEN ArgError("KeyError", Str(a[1]) \o <<" does not correspond to a camera.">>)
            ELSE NoExc
      [] op = "select_field" ->
            IF a[1].type # "int"
            THEN ArgError("TypeError", <<"fieldID must be of type int.">>)
            ELSE NoExc
      [] op = "get_pf_item_value" ->
            IF a[1].type # "int"
            THEN ArgError("TypeError", <<"pfno must be of type int.">>)
            ELSE NoExc
      [] op = "copy_data_from_to" ->
            IF a[1].type # "int"
            THEN ArgError("TypeError", <<"from_field should be of type int">>)
            ELSE IF a[2].type # "int"
            THEN ArgError("TypeError", <<"to_field should be of type int">>)
            ELSE NoExc
      [] op = "get_field_stats" ->
            IF a[1].type # "int"
            THEN ArgError("TypeError", <<"fieldID must be an int.">>)
            ELSE IF a[2] \notin {StrV(<<"ORG">>), StrV(<<"REF">>)}
            THEN ArgError("ValueError",
                          <<"Parameter field_part can only be \"ORG\" or \"REF\".">>)
            ELSE NoExc
      [] op = "set_pf_item_use" ->
            IF a[1].type # "int"
            THEN ArgError("TypeError", <<"pfID must be of type int.">>)
            ELSE IF a[2] \notin {IntV(0), IntV(1)}
            THEN ArgError("ValueError", <<"state must be in [0, 1], not ">> \o Str(a[2]))
            ELSE NoExc

\* The arguments a method passes to send_command after its opcode.
validated_args(op, a) ==
    CASE op = "copy_data_from_to" -> <<StrV(Str(a[1]) \o <<"-">> \o Str(a[2]))>>
      [] op = "set_cam_setting" ->
            <<StrV(Str(a[1]) \o <<":">> \o Str(a[2]) \o <<"=">> \o Str(a[3]))>>
      [] OTHER -> a

\* The calls of these methods the caller makes: (method, arguments).
ValidatedCalls ==
    { <<"load_setup", <<StrV(<<"s">>)>>>>,
      <<"load_setup", <<IntV(5)>>>>,
      <<"set_cam_setting", <<StrV(<<"SHS">>), StrV(<<"AVE">>), IntV(8)>>>>,
      <<"set_cam_setting", <<StrV(<<"SHS">>), StrV(<<"XXX">>), IntV(8)>>>>,
      <<"set_cam_setting", <<StrV(<<"AUX">>), StrV(<<"AVE">>), IntV(8)>>>>,
      <<"select_field", <<IntV(33)>>>>,
      <<"select_field", <<StrV(<<"3", "3">>)>>>>,
      <<"get_pf_item_value", <<IntV(6)>>>>,
      <<"get_pf_item_value", <<StrV(<<"6">>)>>>>,
      <<"copy_data_from_to", <<IntV(33), IntV(1)>>>>,
      <<"copy_data_from_to", <<StrV(<<"3", "3">>), IntV(1)>>>>,
      <<"copy_data_from_to", <<IntV(33), StrV(<<"1">>)>>>>,
      <<"get_field_stats", <<IntV(1), StrV(<<"ORG">>)>>>>,
      <<"get_field_stats", <<StrV(<<"1">>), StrV(<<"ORG">>)>>>>,
      <<"get_field_stats", <<IntV(1), StrV(<<"BOTH">>)>>>>,
      <<"set_pf_item_use", <<IntV(6), IntV(1)>>>>,
      <<"set_pf_item_use", <<StrV(<<"6">>), IntV(1)>>>>,
      <<"set_pf_item_use", <<IntV(6), IntV(2)>>>> }

\* The caller calls one of these methods between two calls: the method
\* raises the error of its argument check, or goes on to send_command.
CallValidated(op, a) ==
    LET exc == arg_error(op, a)
        w == [NoWrap EXCEPT !.op = op, !.arg = a, !.w0 = Len(wire), !.j0 = jid,
                            !.s0 = nsock, !.open0 = is_open]
    IN
    /\ Idle
    /\ wrap.pc \in {"idle", "done"}
    /\ jid - base < MaxJobs
    /\ wrap' = IF exc = NoExc THEN [w EXCEPT !.pc = "call", !.kind = "pending"]
               ELSE [w EXCEPT !.pc = "done", !.kind = exc.kind, !.val = exc.val]
    /\ UNCHANGED <<is_open, sockobj, nsock, jid, sent_last, stack, answer,
                   wire, wsock, answered, base, unsent, call, rcvd, result,
                   scope, threads, inbound>>

\* read_out_stats(answer): the numbers of the payload under fixed keys.
read_out_stats(ans) ==
    LET out == read_out_numbers(ans)
    IN IF out.kind = "return" THEN Out("return", Typed("dict", out.val.v)) ELSE out

\* What one of these methods does with the answer of send_command.
validated_decode(op, ans) ==
    CASE op = "get_pf_item_value" -> to_number(get_result(ans))
      [] op = "get_field_stats" -> read_out_stats(ans)
      [] OTHER -> Out("return", Typed("str", ans))

\* The method calls send_command: with its own opcode, or, inside
\* _check_pass_fail_config, get_par's send_command(26, 'bPassFail').
MethodSends ==
    /\ wrap.pc = "call"
    /\ IF wrap.inner = "get_par"
       THEN send_command(IntV(GET_PAR), <<StrV(B_PASS_FAIL)>>)
       ELSE IF wrap.op = "get_par"
       THEN send_command(IntV(GET_PAR), <<StrV(wrap.arg)>>)
       ELSE IF wrap.op \in VALIDATED
       THEN send_command(IntV(validated_mid(wrap.op)), validated_args(wrap.op, wrap.arg))
       ELSE send_command(IntV(pf_mid(wrap.op)), <<>>)
    /\ wrap' = [wrap EXCEPT !.pc = "wait", !.ncalls = @ + 1]
    /\ UNCHANGED <<threads, inbound>>

\* send_command has ended: the method decodes the answer, and a pass/fail
\* method with an empty list goes on to _check_pass_fail_config.
MethodDecodes ==
    /\ wrap.pc = "wait"
    /\ stack = <<>>
    /\ result.op = "send_command"
    /\ result.kind # "pending"
    /\ wrap' =
        IF wrap.inner = "get_par"
        THEN LET out == check_pass_fail_config(get_par(B_PASS_FAIL, result))
             IN IF out.kind = "return" THEN Finish(Out("return", wrap.list))
                ELSE Finish(out)
        ELSE IF wrap.op = "get_par" THEN Finish(get_par(wrap.arg, result))
        ELSE IF result.kind # "return"
        THEN Finish(Out(result.kind, Typed("exc", result.val)))
        ELSE IF wrap.op \in VALIDATED
        THEN Finish(validated_decode(wrap.op, result.val))
        ELSE LET out == pf_decode(wrap.op, result.val)
             IN IF out.kind # "return" THEN Finish(out)
                ELSE IF out.val.v = <<>>
                THEN [wrap EXCEPT !.pc = "call", !.inner = "get_par",
                                  !.list = out.val]
                ELSE [Finish(out) EXCEPT !.list = out.val]
    /\ UNCHANGED <<is_open, sockobj, nsock, jid, sent_last, stack, answer,
                   wire, wsock, answered, base, unsent, call, rcvd, result,
                   scope, threads, inbound>>

WrapNext ==
    \/ \E m \in Methods : CallMethod(m[1], m[2])
    \/ MethodSends
    \/ MethodDecodes
    \/ \E ans \in WrapResponses : RecvAnswer(ans)
    \/ RecvReset

WrapSpec == Init /\ [][WrapNext]_vars

\* The answers the service gives to the methods that check their arguments.
ValidatedResponses == {RespOk, RespErr, RespBusy}

ValidatedNext ==
    \/ \E m \in ValidatedCalls : CallValidated(m[1], m[2])
    \/ MethodSends
    \/ MethodDecodes
    \/ \E ans \in ValidatedResponses : RecvAnswer(ans)
    \/ RecvReset

ValidatedSpec == Init /\ [][ValidatedNext]_vars

-----------------------------------------------------------------------------
(* ShsClient._command_str on its own: a session with job counter jid builds *)
(* the frame of one command into sent_last.                                 *)

\* Values of self.jid.
FrameJids == {0, 7, 999, 1000}

\* Opcodes: any int passes the type check of send_command.
FrameMids == {0, 8, 16, 100, -1}

\* Argument lists: ints and strs, among them the empty str and strs with '|'.
FrameArgs ==
    { <<>>,
      <<IntV(42)>>,
      <<IntV(-7), IntV(1)>>,
      <<StrV(<<"t", "e", "s", "t">>)>>,
      <<StrV(<<>>)>>,
      <<StrV(<<"a">>), StrV(<<>>)>>,
      <<StrV(<<"a", PIPE, "b">>)>>,
      <<StrV(<<"a", PIPE>>), IntV(3)>>,
      <<StrV(<<"x">>), StrV(<<"y", PIPE>>)>> }

FrameInit ==
    /\ jid \in FrameJids
    /\ \E m \in FrameMids, a \in FrameArgs :
        call = [mid |-> IntV(m), args |-> a, jid |-> jid, w0 |-> 0,
                open0 |-> FALSE, s0 |-> 1]
    /\ is_open = FALSE
    /\ sockobj = "fresh"
    /\ nsock = 1
    /\ sent_last = <<>>
    /\ stack = <<>>
    /\ answer = <<>>
    /\ wire = <<>>
    /\ wsock = <<>>
    /\ answered = {}
    /\ base = jid
    /\ unsent = 0
    /\ rcvd = <<>>
    /\ result = [op |-> "__init__", kind |-> "return", val |-> <<>>]
    /\ scope = "out"
    /\ wrap = NoWrap
    /\ threads = NoThreads
    /\ inbound = NoInbound

\* message = self._command_str(mid, *args)
BuildFrame ==
    /\ sent_last = <<>>
    /\ sent_last' = command_str(jid, call.mid.v, call.args)
    /\ UNCHANGED <<is_open, sockobj, nsock, jid, stack, answer, wire, wsock, answered,
                   base, unsent, call, rcvd, result, scope, wrap, threads, inbound>>

FrameNext == BuildFrame

FrameSpec == FrameInit /\ [][FrameNext]_vars

-----------------------------------------------------------------------------
(* The receive loop of _send read by read: the service writes its response *)
(* to the connection, and each recv(512) returns a non-empty part of what  *)
(* is there to read, as the transport happens to deliver it.               *)

\* A response of two lines.
RespLines == HEADER \o <<"1", "=", "Ok", PIPE, "a", CR, LF, "b", CR, LF>>

\* The responses of the service: of one line and of two.
ChunkResponses == {RespOk, RespErr, RespLines}

\* The service answers the last frame written with resp.
ServiceResponds(resp) ==
    /\ stack # <<>>
    /\ sockobj = "connected"
    /\ inbound.served < Len(wire)
    /\ inbound' = [buf |-> inbound.buf \o resp, served |-> Len(wire)]
    /\ UNCHANGED <<is_open, sockobj, nsock, jid, sent_last, stack, answer, wire,
                   wsock, answered, base, unsent, call, rcvd, result, scope,
                   wrap, threads>>

\* Lines 152-154 of _send: one recv(512) returns the first k tokens there
\* are to read; the loop goes on unless the accumulator ends in CRLF, and
\* then send_command goes on with the accumulator.
RecvChunk(k) ==
    LET acc == answer \o SubSeq(inbound.buf, 1, k) IN
    /\ stack # <<>>
    /\ sockobj = "connected"
    /\ k \in 1..Len(inbound.buf)
    /\ inbound' = [inbound EXCEPT !.buf = SubSeq(inbound.buf, k + 1, Len(inbound.buf))]
    /\ IF LastTwo(acc) = <<CR, LF>>
       THEN /\ rcvd' = Append(rcvd, acc)
            /\ answered' = answered \cup {Len(wire)}
            /\ Process(acc)
            /\ UNCHANGED <<base, call, scope>>
       ELSE /\ answer' = acc
            /\ UNCHANGED <<is_open, sockobj, nsock, jid, sent_last, stack, wire,
                           wsock, answered, base, unsent, call, rcvd, result,
                           scope>>
    /\ UNCHANGED <<wrap, threads>>

\* The longest chunk a recv returns, in tokens: a whole response of two
\* lines.
MaxChunk == 16

ChunkNext ==
    \/ Connect
    \/ SendCommand(IntV(16), <<IntV(42)>>)
    \/ \E resp \in ChunkResponses : ServiceResponds(resp)
    \/ \E k \in 1..MaxChunk : RecvChunk(k)

ChunkSpec == Init /\ [][ChunkNext]_vars

-----------------------------------------------------------------------------
(* Two callers share one connected session and call send_command, each    *)
(* with its own command.  Python runs one caller at a time and may switch  *)
(* between any two reads or writes of an attribute of the session, and     *)
(* while a caller waits in socket.send or socket.recv.                     *)

Callers == {1, 2}

\* The command of each caller: (mid, args).
CallerCommand(t) == IF t = 1 THEN <<16, <<IntV(42)>>>> ELSE <<7, <<>>>>

\* The answers the service gives: success, an error code, unknown command.
ConcResponses == {RespOk, RespErr, RespUnkUC}

NoThread ==
    [pc |-> "idle", message |-> <<>>, loaded |-> 0, answer |-> <<>>, calls |-> 0,
     kind |-> "none", val |-> <<>>]

ConcInit ==
    /\ jid = 0
    /\ is_open = TRUE
    /\ sockobj = "connected"
    /\ nsock = 1
    /\ sent_last = <<>>
    /\ stack = <<>>
    /\ answer = <<>>
    /\ wire = <<>>
    /\ wsock = <<>>
    /\ answered = {}
    /\ base = jid
    /\ unsent = 0
    /\ call = NoCall
    /\ rcvd = <<>>
    /\ result = Returned("connect", <<>>)
    /\ scope = "out"
    /\ wrap = NoWrap
    /\ inbound = NoInbound
    /\ \E ser \in BOOLEAN :
        threads = [serialized |-> ser, t |-> [t \in Callers |-> NoThread]]

\* Caller t moves on in send_command.
Step(t, th) == threads' = [threads EXCEPT !.t[t] = th]

\* Lines 112-114: caller t enters send_command and builds its frame from
\* self.jid.  Callers that serialize enter only while no other caller is
\* inside.
BuildMessage(t) ==
    LET th == threads.t[t] c == CallerCommand(t) IN
    /\ th.pc = "idle"
    /\ threads.t[1].calls + threads.t[2].calls
         + Cardinality({u \in Callers : threads.t[u].pc # "idle"}) < MaxJobs
    /\ threads.serialized => \A u \in Callers : threads.t[u].pc = "idle"
    /\ Step(t, [th EXCEPT !.pc = "built", !.message = command_str(jid, c[1], c[2]),
                          !.answer = <<>>, !.kind = "pending", !.val = <<>>])
    /\ UNCHANGED <<is_open, sockobj, nsock, jid, sent_last, stack, answer, wire,
                   wsock, answered, base, unsent, call, rcvd, result, scope, wrap,
                   inbound>>

\* Line 115, self.jid += 1: the read of self.jid.
LoadJid(t) ==
    LET th == threads.t[t] IN
    /\ th.pc = "built"
    /\ Step(t, [th EXCEPT !.pc = "loaded", !.loaded = jid])
    /\ UNCHANGED <<is_open, sockobj, nsock, jid, sent_last, stack, answer, wire,
                   wsock, answered, base, unsent, call, rcvd, result, scope, wrap,
                   inbound>>

\* A job counter that is written back as it was read.
StoreJidUnchanged(t) ==
    LET th == threads.t[t] IN
    /\ th.pc = "loaded"
    /\ jid' = th.loaded
    /\ Step(t, [th EXCEPT !.pc = "counted"])
    /\ UNCHANGED <<is_open, sockobj, nsock, sent_last, stack, answer, wire,
                   wsock, answered, base, unsent, call, rcvd, result, scope, wrap,
                   inbound>>

\* Line 115, self.jid += 1: the write of self.jid.  The frame is within
\* the length limit and the session is open: lines 116-121 do nothing.
StoreJid(t) ==
    LET th == threads.t[t] IN
    /\ th.pc = "loaded"
    /\ jid' = th.loaded + 1
    /\ Step(t, [th EXCEPT !.pc = "counted"])
    /\ UNCHANGED <<is_open, sockobj, nsock, sent_last, stack, answer, wire,
                   wsock, answered, base, unsent, call, rcvd, result, scope, wrap,
                   inbound>>

\* Line 149 of _send: self.sent_last = string.
SetSentLast(t) ==
    LET th == threads.t[t] IN
    /\ th.pc = "counted"
    /\ sent_last' = th.message
    /\ Step(t, [th EXCEPT !.pc = "recorded"])
    /\ UNCHANGED <<is_open, sockobj, nsock, jid, stack, answer, wire,
                   wsock, answered, base, unsent, call, rcvd, result, scope, wrap,
                   inbound>>

\* Line 150 of _send: the frame is written to the socket.
SocketSend(t) ==
    LET th == threads.t[t] IN
    /\ th.pc = "recorded"
    /\ wire' = Append(wire, th.message)
    /\ wsock' = Append(wsock, nsock)
    /\ Step(t, [th EXCEPT !.pc = "written"])
    /\ UNCHANGED <<is_open, sockobj, nsock, jid, sent_last, stack, answer,
                   answered, base, unsent, call, rcvd, result, scope, wrap,
                   inbound>>

\* Lines 151-154 of _send: the receive loop of caller t reads an answer.
SocketRecv(t, ans) ==
    LET th == threads.t[t] IN
    /\ th.pc = "written"
    /\ Step(t, [th EXCEPT !.pc = "received", !.answer = ans])
    /\ UNCHANGED <<is_open, sockobj, nsock, jid, sent_last, stack, answer, wire,
                   wsock, answered, base, unsent, call, rcvd, result, scope, wrap,
                   inbound>>

\* Lines 127-144 on an answer without the busy marker, with self.sent_last
\* = sl when the error message is built: what send_command raises or
\* returns.
outcome(ans, sl) ==
    LET answer_split == split_answer(ans) IN
    IF HasUnknown(ans) THEN UNKNOWN_COMMAND(sl)
    ELSE IF Len(answer_split) < 4
    THEN [kind |-> "IndexError", val |-> <<"list index out of range">>]
    ELSE IF FirstTwo(answer_split[4]) # <<"1", "=">>
    THEN SHSWORKS_ERROR(sl, answer_split)
    ELSE [kind |-> "return", val |-> ans]

\* Lines 127-144: caller t leaves send_command with its answer or with an
\* error that names self.sent_last as it is now.
Leave(t) ==
    LET th == threads.t[t] out == outcome(th.answer, sent_last) IN
    /\ th.pc = "received"
    /\ Step(t, [th EXCEPT !.pc = "idle", !.calls = @ + 1,
                          !.kind = out.kind, !.val = out.val])
    /\ UNCHANGED <<is_open, sockobj, nsock, jid, sent_last, stack, answer, wire,
                   wsock, answered, base, unsent, call, rcvd, result, scope, wrap,
                   inbound>>

ConcNext ==
    \/ \E t \in Callers : BuildMessage(t)
    \/ \E t \in Callers : LoadJid(t)
    \/ \E t \in Callers : StoreJid(t)
    \/ \E t \in Callers : SetSentLast(t)
    \/ \E t \in Callers : SocketSend(t)
    \/ \E t \in Callers, ans \in ConcResponses : SocketRecv(t, ans)
    \/ \E t \in Callers : Leave(t)

ConcSpec == ConcInit /\ [][ConcNext]_vars

-----------------------------------------------------------------------------
(* Notions the properties are stated with. *)

\* The frames written since the send_command call began.
sent == SubSeq(wire, call.w0 + 1, Len(wire))

\* The send_command call has returned or raised.
Done == stack = <<>> /\ result.op = "send_command" /\ result.kind # "pending"

\* The job-id field and the opcode field of a frame, as numbers.
FrameJid(frame) == ParseInt(SplitPipe(frame)[2])

FrameMid(frame) == ParseInt(SplitPipe(frame)[3])

\* The error-code field of the answer exists and begins with '1='.
CodeOk(ans) ==
    /\ Len(SplitPipe(ans)) >= 4
    /\ Len(SplitPipe(ans)[4]) >= 2
    /\ SplitPipe(ans)[4][1] = "1"
    /\ SplitPipe(ans)[4][2] = "="

\* An answer with which an exchange succeeds.
PlainSuccess(ans) == ~HasUnknown(ans) /\ ~HasBusy(ans) /\ CodeOk(ans)

EndsWith(text, tail) ==
    /\ Len(text) >= Len(tail)
    /\ SubSeq(text, Len(text) - Len(tail) + 1, Len(text)) = tail

\* The end of the message of the error for the rejected answer ans: the
\* error code, then the next field if there is one.
Warning(ans) ==
    LET f == SplitPipe(ans)
    IN <<LF>> \o f[4] \o (IF Len(f) >= 5 THEN <<" ">> \o f[5] ELSE <<>>)

\* How an exchange that sent frame and read the answer ans, without the busy
\* marker, is to end for the caller: the kind of outcome.
ExpectedKind(frame, ans) ==
    IF HasUnknown(ans) THEN "UnknownCommandError"
    ELSE IF CodeOk(ans) THEN "return"
    ELSE "SHSWorksError"

\* The kind of outcome the exchange has in full: an error whose text names
\* the command is KeyError when the opcode of the frame is no key of the
\* name table, and an answer of fewer than four fields is an IndexError.
OutcomeKind(frame, ans) ==
    LET named(kind) == IF FrameMid(frame) \in COMMAND_KEYS THEN kind ELSE "KeyError"
    IN IF HasUnknown(ans) THEN named("UnknownCommandError")
       ELSE IF Len(SplitPipe(ans)) < 4 THEN "IndexError"
       ELSE IF CodeOk(ans) THEN "return"
       ELSE named("SHSWorksError")

-----------------------------------------------------------------------------
(* C1 *)

\* C1, as claimed: in every reachable state the job counter equals the
\* number of frames written to the socket since the session was created.
C1_JidEqualsFramesWritten == jid = base + Len(wire)

\* C1, amended: the job counter is advanced exactly once by every
\* send_command invocation that passes the opcode type check, before the
\* length check, the connect and the write; so it equals the frames written
\* plus the invocations that ended before their write, and is never behind
\* the frames written.
C1_JidCountsInvocations ==
    /\ jid = base + Len(wire) + unsent
    /\ unsent >= 0
    /\ jid >= base + Len(wire)

\* A rejected frame has left the counter ahead after a recovery wrote frames.
C1_Witness == unsent >= 1 /\ Len(wire) >= 2 /\ Done /\ result.kind = "ValueError"

-----------------------------------------------------------------------------
(* C2 *)

ThreeFrames ==
    /\ Len(sent) = 3
    /\ sent[1] = command_str(call.jid, call.mid.v, call.args)
    /\ sent[2] = command_str(call.jid + 1, 8, <<>>)
    /\ sent[3] = command_str(call.jid + 2, call.mid.v, call.args)

\* C2, as claimed: when the first answer has the busy marker and neither the
\* answer to the nested stop-live-mode frame nor the answer to the
\* retransmission has it, exactly three frames are written: the original
\* with job id j, opcode 8 without arguments with j+1, the original again
\* with j+2; and the caller gets the outcome of the retransmission.  Stated
\* here for the opcodes of the name table and answers of four fields or
\* more only.
C2_ThreeFramesWheneverBusy ==
    ( /\ Done
      /\ call.mid.type = "int"
      /\ call.mid.v \in COMMAND_KEYS
      /\ \A i \in 1..Len(rcvd) : Len(SplitPipe(rcvd[i])) >= 4
      /\ Len(rcvd) >= 2
      /\ HasBusy(rcvd[1])
      /\ \A i \in 2..Len(rcvd) : ~HasBusy(rcvd[i]) )
    => /\ ThreeFrames
       /\ Len(rcvd) = 3 =>
            /\ result.kind = ExpectedKind(sent[3], rcvd[3])
            /\ result.kind = "return" => result.val = rcvd[3]

\* C2, amended: when the first answer has the busy marker, the nested
\* stop-live-mode exchange succeeds and the retransmission is written and
\* answered without the busy marker, exactly those three frames are written
\* and the caller gets the outcome of the retransmission: its answer, or the
\* error that answer causes.  When the nested exchange is answered with a
\* failure, that failure is the outcome and only two frames are written;
\* when it succeeds and only two answers are read, the retransmission was
\* rejected or lost and the call raises.
C2_RecoveryWhenStopLiveSucceeds ==
    /\ ( /\ Done
         /\ Len(rcvd) >= 3
         /\ HasBusy(rcvd[1])
         /\ ~HasBusy(rcvd[2])
         /\ ~HasBusy(rcvd[3]) )
       => /\ Len(rcvd) = 3
          /\ PlainSuccess(rcvd[2])
          /\ ThreeFrames
          /\ result.kind = OutcomeKind(sent[3], rcvd[3])
          /\ result.kind = "return" => result.val = rcvd[3]
    /\ ( /\ Done
         /\ Len(rcvd) = 2
         /\ HasBusy(rcvd[1])
         /\ ~HasBusy(rcvd[2]) )
       => /\ result.kind # "return"
          /\ ~PlainSuccess(rcvd[2]) =>
                /\ Len(sent) = 2
                /\ result.kind = OutcomeKind(sent[2], rcvd[2])

\* A recovery of three exchanges has returned the answer to the third.
C2_Witness ==
    /\ Done
    /\ Len(rcvd) = 3
    /\ HasBusy(rcvd[1])
    /\ PlainSuccess(rcvd[2])
    /\ ThreeFrames
    /\ result.kind = "return"

-----------------------------------------------------------------------------
(* C3 *)

\* C3, as claimed: for every integer opcode, an answer with 'Unknown
\* Command' or 'Unknown command' makes send_command fail with
\* UnknownCommandError, whatever else the answer holds: it is the last
\* answer the call reads (no stop-live-mode exchange follows it).
C3_UnknownCommandRaised ==
    \A i \in 1..Len(rcvd) :
        HasUnknown(rcvd[i]) =>
            /\ i = Len(rcvd)
            /\ Done
            /\ result.kind = "UnknownCommandError"

-----------------------------------------------------------------------------
(* C4 *)

\* C4, as claimed: every answer whose field 3 does not begin with '1=' makes
\* send_command fail with SHSWorksError, whatever else it holds, and the
\* message ends with that field, followed by field 4 if the answer has one.
\* Stated here for the opcodes of the name table only.
C4_ErrorCodeAlwaysProtocolError ==
    \A i \in 1..Len(rcvd) :
        ( /\ Len(SplitPipe(rcvd[i])) >= 4
          /\ ~CodeOk(rcvd[i])
          /\ call.mid.type = "int"
          /\ call.mid.v \in COMMAND_KEYS ) =>
            /\ i = Len(rcvd)
            /\ Done
            /\ result.kind = "SHSWorksError"
            /\ EndsWith(result.val, Warning(rcvd[i]))

\* C4, amended: every answer whose field 3 does not begin with '1=' and
\* which holds neither unknown-command variant nor the busy marker ends the
\* call with an error: SHSWorksError with that message when the opcode sent
\* is a key of the name table, KeyError when it is not (C3).
C4_ErrorCodeWithoutMarkers ==
    \A i \in 1..Len(rcvd) :
        ( /\ Len(SplitPipe(rcvd[i])) >= 4
          /\ ~CodeOk(rcvd[i])
          /\ ~HasUnknown(rcvd[i])
          /\ ~HasBusy(rcvd[i]) ) =>
            /\ i = Len(rcvd)
            /\ Done
            /\ IF FrameMid(sent_last) \in COMMAND_KEYS
               THEN /\ result.kind = "SHSWorksError"
                    /\ EndsWith(result.val, Warning(rcvd[i]))
               ELSE result.kind = "KeyError"

\* Both shapes of the message have been raised: this one has the field
\* after the error code.
C4_Witness ==
    /\ Done
    /\ result.kind = "SHSWorksError"
    /\ rcvd # <<>>
    /\ Len(SplitPipe(rcvd[Len(rcvd)])) >= 5
    /\ EndsWith(result.val, <<" ", "msg", CR, LF>>)

-----------------------------------------------------------------------------
(* C5 *)

\* C5, as claimed: between two calls, an open flag that is true means a
\* socket connected to the remote service (also after send_command has
\* failed with ConnectionResetError), and a frame is only written with the
\* flag true.
C5_OpenMeansConnected ==
    [][ /\ (stack' = <<>> /\ is_open') => sockobj' = "connected"
        /\ Len(wire') > Len(wire) => is_open' ]_vars

-----------------------------------------------------------------------------
(* C6 *)

\* C6, as claimed: a send_command that fails with ConnectionResetError
\* writes no further frame and creates no socket, and a connect() called
\* next leaves the session with a connected socket.
C6_ConnectAfterConnectionLost ==
    [][ /\ (result'.op = "send_command" /\ result'.kind = "ConnectionResetError")
             => (Len(wire') = Len(wire) /\ nsock' = nsock)
        /\ ( /\ Done
             /\ result.kind = "ConnectionResetError"
             /\ result'.op = "connect"
             /\ result'.kind = "return" )
             => (is_open' /\ sockobj' = "connected") ]_vars

-----------------------------------------------------------------------------
(* C7 *)

\* C7, as claimed: when the with-statement is left, on any path, the socket
\* the session holds is closed and the open flag is false.
C7_ScopeLeftMeansClosed ==
    scope = "left" => (sockobj = "closed" /\ ~is_open)

-----------------------------------------------------------------------------
(* C8 *)

\* C8, as claimed: a send_command in progress on an established connection
\* comes to an end: in every state in which it waits in the receive loop, a
\* step that changes the state is possible (an answer is completed, or the
\* connection fails), also when the peer has shut the connection down before
\* a trailing CRLF.
C8_ReceiveLoopEnds == stack # <<>> => ENABLED <<Next>>_vars

-----------------------------------------------------------------------------
(* C9 *)

\* C9: whenever an invocation of send_command reads an answer with the busy
\* marker (and no unknown-command variant), at whatever depth, the call
\* neither returns nor raises: one more invocation is in progress, a
\* stop-live-mode frame (opcode 8, no arguments) with the current job id is
\* written and the job counter is advanced by one.
C9_BusyAlwaysRecurses ==
    [][ ( /\ stack # <<>>
          /\ Len(rcvd') = Len(rcvd) + 1
          /\ HasBusy(rcvd'[Len(rcvd')])
          /\ ~HasUnknown(rcvd'[Len(rcvd')]) )
        => /\ stack' = <<[mid |-> 8, args |-> <<>>]>> \o stack
           /\ wire' = Append(wire, command_str(jid, 8, <<>>))
           /\ jid' = jid + 1
           /\ result' = Pending ]_vars

\* Every frame of a call was answered with the busy marker, and the call is
\* three invocations deep.
C9_Witness ==
    /\ Len(stack) >= 3
    /\ Len(rcvd) >= 2
    /\ \A i \in 1..Len(rcvd) : HasBusy(rcvd[i])
    /\ jid = call.jid + 3

-----------------------------------------------------------------------------
(* C10 *)

JidsIncreasing(frames) ==
    \A i, k \in 1..Len(frames) : i < k => FrameJid(frames[i]) < FrameJid(frames[k])

\* C10: the job-id fields of the frames written are strictly increasing in
\* the order of writing, and connect(), close(), __enter__, __exit__ and
\* __del__ leave the job counter as it is.
C10_JobIdsIncrease ==
    [][ /\ wire' # wire => JidsIncreasing(wire')
        /\ result'.op \in {"connect", "close", "__enter__", "__exit__", "__del__"}
             => jid' = jid ]_vars

\* Frames were written to one socket and, after the session was closed and
\* connected again, to the next, the last of them with a job id of four
\* digits.
C10_Witness ==
    /\ Len(wire) >= 3
    /\ wsock[1] # wsock[3]
    /\ FrameJid(wire[1]) < FrameJid(wire[3])
    /\ FrameJid(wire[3]) >= 1000

-----------------------------------------------------------------------------
(* C11 *)

\* No busy-state recovery has begun: no stop-live-mode frame was written
\* (the caller of the model never sends opcode 8 itself).
NoRecovery == \A i \in 1..Len(wire) : FrameMid(wire[i]) # CLOSE_LIVE

\* C11: on a session created with job counter 0, as long as every
\* send_command invocation has written its frame and no busy-state recovery
\* has begun, the n-th frame written (counting from 0) has the job-id field
\* str(n) zero-padded to three digits; and a call that returns after one
\* exchange has written exactly one frame, with the job counter it found,
\* and left the counter one higher: so when every call succeeds without
\* recovery, the n-th call writes the n-th frame.
C11_NthCallCarriesJobIdN ==
    /\ (base = 0 /\ unsent = 0 /\ NoRecovery) =>
          \A i \in 1..Len(wire) :
              /\ SplitPipe(wire[i])[2] = FormatD(i - 1, 3)
              /\ FrameJid(wire[i]) = i - 1
    /\ (Done /\ result.kind = "return" /\ Len(rcvd) = 1) =>
          /\ Len(sent) = 1
          /\ FrameJid(sent[1]) = call.jid
          /\ jid = call.jid + 1

\* The third successful call of a new session has written job id 002, after
\* 000 and 001.
C11_Witness ==
    /\ base = 0
    /\ unsent = 0
    /\ NoRecovery
    /\ Done
    /\ result.kind = "return"
    /\ Len(wire) = 3
    /\ SplitPipe(wire[1])[2] = <<"0", "0", "0">>
    /\ SplitPipe(wire[3])[2] = <<"0", "0", "2">>

-----------------------------------------------------------------------------
(* C12 *)

\* The pipe-delimited fields of a frame without its CRLF.
FrameFields(frame) == SplitPipe(DropLastTwo(frame))

\* The number of '|' in text.
Pipes(text) == Cardinality({i \in 1..Len(text) : text[i] = PIPE})

RECURSIVE PipesIn(_)
\* The number of '|' in the strings of the arguments.
PipesIn(args) ==
    IF args = <<>> THEN 0 ELSE Pipes(Str(Head(args))) + PipesIn(Tail(args))

\* The frame ends, before its CRLF, with '|'.
TrailingPipe(frame) ==
    /\ Len(frame) >= 3
    /\ frame[Len(frame) - 2] = PIPE

\* What holds of the frame of every opcode and argument list: it ends with
\* CRLF, its first three fields are 'Start', the job id and the opcode, and
\* without arguments it has one more field, which is empty.
FrameHeader(frame) ==
    LET f == FrameFields(frame) IN
    /\ LastTwo(frame) = <<CR, LF>>
    /\ Len(f) >= 4
    /\ f[1] = <<"Start">>
    /\ ParseInt(f[2]) = call.jid
    /\ ParseInt(f[3]) = call.mid.v
    /\ call.args = <<>> => (Len(f) = 4 /\ f[4] = <<>>)

\* C12, as claimed: the frame built for an opcode and n arguments is
\* 'Start', the job id, the opcode, and, for n >= 1, exactly n argument
\* fields, the i-th of them str(arg i), with no '|' before the CRLF; for
\* n = 0 one empty argument field.
C12_OneFieldPerArgument ==
    sent_last # <<>> =>
        LET f == FrameFields(sent_last)
            n == Len(call.args)
        IN /\ FrameHeader(sent_last)
           /\ n >= 1 =>
                /\ Len(f) = 3 + n
                /\ \A i \in 1..n : f[3 + i] = Str(call.args[i])
                /\ ~TrailingPipe(sent_last)

\* C12, amended: the extra '|' is there exactly when there are no
\* arguments, but the strings of the arguments are written as they are: with
\* n >= 1 arguments the frame has n argument fields plus one for every '|'
\* inside an argument's string, the fields are the arguments' strings when
\* none of them holds a '|', and the frame ends with '|' exactly when the
\* string of the last argument is empty or ends with '|'.
C12_ArgumentsWrittenAsTheyAre ==
    sent_last # <<>> =>
        LET f == FrameFields(sent_last)
            n == Len(call.args)
        IN /\ FrameHeader(sent_last)
           /\ Pipes(sent_last) = 2 + (IF n = 0 THEN 1 ELSE n + PipesIn(call.args))
           /\ n >= 1 =>
                /\ Len(f) = 3 + n + PipesIn(call.args)
                /\ PipesIn(call.args) = 0 =>
                       \A i \in 1..n : f[3 + i] = Str(call.args[i])
                /\ TrailingPipe(sent_last) <=>
                       LET last == Str(call.args[n])
                       IN last = <<>> \/ last[Len(last)] = PIPE

\* The frame of a command with one argument, the str 'a|b', is built: it
\* has two argument fields.
C12_Witness ==
    /\ sent_last # <<>>
    /\ call.args = <<StrV(<<"a", PIPE, "b">>)>>
    /\ Len(FrameFields(sent_last)) = 5
    /\ ~TrailingPipe(sent_last)

-----------------------------------------------------------------------------
(* C13 *)

\* C13: when an invocation of send_command has read its answer, it returns
\* exactly when the answer holds neither unknown-command variant nor the
\* busy marker and its field 3 begins with '1=', and what it returns is the
\* answer as read.  For the call of the caller the return is the outcome of
\* the call; for a nested stop-live-mode call or a retransmission it is
\* followed at once by the next invocation of the recovery (the job counter
\* is advanced and no invocation is added), which writes its frame or raises.
C13_ReturnsAnswerExactlyOnSuccess ==
    [][ (stack # <<>> /\ Len(rcvd') = Len(rcvd) + 1) =>
          LET a == rcvd'[Len(rcvd')] IN
          /\ Len(stack) = 1 =>
                /\ result'.kind = "return" <=> PlainSuccess(a)
                /\ result'.kind = "return" =>
                       (result' = Returned("send_command", a) /\ stack' = <<>>)
          /\ Len(stack) > 1 =>
                /\ PlainSuccess(a) <=>
                       (jid' = jid + 1 /\ Len(stack') <= Len(stack))
                /\ result'.kind = "return" =>
                       (PlainSuccess(a) /\ result' = Returned("send_command", a))
      ]_vars

\* On a session whose counter is 1, send_command(16, 42) has written
\* 'Start|001|16|42' + CRLF and returned the answer
\* 'Stop|JID=001|OP=;ST=;SN=|1=Ok|1' + CRLF.
C13_Witness ==
    /\ Done
    /\ call.jid = 1
    /\ call.mid = IntV(16)
    /\ call.args = <<IntV(42)>>
    /\ sent = << <<"Start", "|", "0", "0", "1", "|", "1", "6", "|", "4", "2",
                  "\r", "\n">> >>
    /\ rcvd = << <<"Stop", "|", "JID=001", "|", "OP=;ST=;SN=", "|",
                  "1", "=", "Ok", "|", "1", "\r", "\n">> >>
    /\ result = Returned("send_command", rcvd[1])

-----------------------------------------------------------------------------
(* C14 *)

\* C14: a connect() called with the open flag true returns and changes
\* nothing of the session: no socket is created, the flag, the socket, the
\* job counter and the last-sent record are as before; a connect() called
\* with the flag false that returns leaves a new, connected socket and the
\* flag true (so that a second connect() is of the first kind).
C14_ConnectIdempotent ==
    [][ (stack = <<>> /\ result'.op = "connect") =>
          /\ jid' = jid /\ sent_last' = sent_last /\ wire' = wire
          /\ is_open =>
                /\ result'.kind = "return"
                /\ is_open' /\ sockobj' = sockobj /\ nsock' = nsock
          /\ (~is_open /\ result'.kind = "return") =>
                /\ is_open' /\ sockobj' = "connected" /\ nsock' = nsock + 1
      ]_vars

\* connect() has returned on a session that was open: it holds the connected
\* socket its last frame was written to.
C14_Witness ==
    /\ result = Returned("connect", <<>>)
    /\ is_open
    /\ sockobj = "connected"
    /\ wire # <<>>
    /\ wsock[Len(wsock)] = nsock

-----------------------------------------------------------------------------
(* C15 *)

\* C15: close() and __del__, called in any state between two calls, return
\* (they raise nothing) and leave the socket closed and the open flag false,
\* without a new socket and with the job counter and the last-sent record
\* as before; on a session that is already closed they change nothing.
C15_CloseIdempotent ==
    [][ (stack = <<>> /\ result'.op \in {"close", "__del__"}) =>
          /\ result'.kind = "return"
          /\ ~is_open'
          /\ sockobj' = "closed"
          /\ nsock' = nsock /\ jid' = jid /\ sent_last' = sent_last
          /\ (~is_open /\ sockobj = "closed") =>
                <<is_open, sockobj, nsock, jid, sent_last>>' =
                    <<is_open, sockobj, nsock, jid, sent_last>>
      ]_vars

\* close() has returned on a session that never connected: its first socket
\* is closed.
C15_Witness ==
    /\ result = Returned("close", <<>>)
    /\ base = 0
    /\ nsock = 1
    /\ wire = <<>>
    /\ sockobj = "closed"
    /\ ~is_open

-----------------------------------------------------------------------------
(* C16 *)

\* C16: an invocation of send_command whose frame passes the length check
\* (the job counter is advanced and no ValueError is raised), with the open
\* flag false, creates a new socket and connects it before anything is
\* written: either the connection is refused and nothing is written, or the
\* flag is true, the new socket is connected and the frame is written to
\* it; with the open flag true it creates no socket, keeps the socket it
\* holds, and a frame it writes goes to that socket.
C16_ConnectsBeforeWriting ==
    [][ (jid' = jid + 1 /\ result'.kind # "ValueError") =>
          /\ ~is_open =>
                /\ nsock' = nsock + 1
                /\ \/ /\ result'.kind = "ConnectionRefusedError"
                      /\ wire' = wire
                      /\ ~is_open'
                   \/ /\ result' = Pending
                      /\ is_open'
                      /\ sockobj' = "connected"
                      /\ sent_last' = command_str(jid, call'.mid.v, call'.args)
                      /\ wire' = Append(wire, sent_last')
                      /\ wsock' = Append(wsock, nsock')
          /\ is_open =>
                /\ nsock' = nsock
                /\ sockobj' = sockobj
                /\ is_open'
                /\ wire' # wire =>
                      (wire' = Append(wire, sent_last') /\ wsock' = Append(wsock, nsock))
      ]_vars

\* A session that had written a frame and was closed: a send_command called
\* with the flag false has created the next socket and written its frame to
\* it.
C16_Witness ==
    /\ result = Pending
    /\ ~call.open0
    /\ nsock = call.s0 + 1
    /\ is_open
    /\ Len(wire) >= 2
    /\ wsock[Len(wsock)] = nsock
    /\ wsock[1] < nsock

-----------------------------------------------------------------------------
(* C17 *)

\* C17: a call that ends with ConnectionRefusedError (connect(), __enter__,
\* or send_command through its connect) began with the open flag false,
\* made one connection attempt on a new socket, carries the guidance
\* message, leaves the flag false and has written no frame; and the next
\* connect() or send_command with a frame that passes its checks makes a
\* new attempt in the same way, which may succeed.
C17_RefusedLeavesSessionUsable ==
    [][ /\ result'.kind = "ConnectionRefusedError" =>
              /\ result'.val =
                    <<"Please check if SHSWorks is running, TCP/IP is enabled and port is ",
                      "server_port">>
              /\ ~is_open
              /\ ~is_open'
              /\ nsock' = nsock + 1
              /\ wire' = wire
              /\ sent_last' = sent_last
        /\ ( /\ stack = <<>>
             /\ result.kind = "ConnectionRefusedError"
             /\ \/ result'.op = "connect"
                \/ (jid' = jid + 1 /\ result'.kind # "ValueError") ) =>
              /\ nsock' = nsock + 1
              /\ \/ result'.kind = "ConnectionRefusedError"
                 \/ (is_open' /\ sockobj' = "connected")
      ]_vars

\* A send_command was refused the connection: the counter is one ahead and
\* nothing was written.
C17_Witness ==
    /\ result = Raised("send_command", REFUSED)
    /\ ~call.open0
    /\ nsock = call.s0 + 1
    /\ ~is_open
    /\ sockobj = "fresh"
    /\ jid = call.jid + 1
    /\ sent = <<>>

-----------------------------------------------------------------------------
(* C18 *)

\* C18: an invocation of send_command, the caller's or one of a recovery,
\* ends with ValueError exactly when its frame, CRLF included, is longer
\* than 4096 characters; the error names the limit and the frame, the job
\* counter is one higher than before, nothing is written, no socket is
\* created, flag and socket are as before and the last-sent record is
\* unchanged.  A frame of exactly 4096 characters is not rejected: on a
\* connected session it is written.
C18_TooLongRejectedAfterIncrement ==
    [][ /\ result'.kind = "ValueError" =>
              /\ jid' = jid + 1
              /\ wire' = wire
              /\ nsock' = nsock
              /\ is_open' = is_open
              /\ sockobj' = sockobj
              /\ sent_last' = sent_last
        /\ (stack = <<>> /\ jid' = jid + 1) =>
              LET message == command_str(jid, call'.mid.v, call'.args) IN
              /\ Length(message) > 4096 <=> result'.kind = "ValueError"
              /\ result'.kind = "ValueError" =>
                    result'.val =
                        <<"The maximum command length is ", "4", "0", "9", "6",
                          ". The command ">> \o message \o <<" is too long.">>
              /\ (Length(message) = 4096 /\ is_open /\ sockobj = "connected") =>
                    (wire' = Append(wire, message) /\ result' = Pending)
        /\ (stack # <<>> /\ jid' = jid + 1 /\ stack' # <<>>) =>
              (Length(wire'[Len(wire')]) <= 4096 /\ wire' # wire)
      ]_vars

\* A frame of 4096 characters was written, and a call with a frame of 4097
\* characters has been rejected with the flag false: no socket was created.
C18_Witness ==
    /\ Done
    /\ result.kind = "ValueError"
    /\ call.args = <<StrV(<<FILL, "a">>)>>
    /\ Length(command_str(call.jid, call.mid.v, call.args)) = 4097
    /\ jid = call.jid + 1
    /\ ~call.open0
    /\ nsock = call.s0
    /\ wire # <<>>
    /\ Length(wire[1]) = 4096

-----------------------------------------------------------------------------
(* C19 *)

\* C19: a send_command called with an opcode that is no int raises TypeError
\* and does nothing else: the job counter, the open flag, the socket, the
\* sockets created, the last-sent record and the frames written are as
\* before the call; and only such a call raises TypeError.
C19_NonIntegerOpcodeRejectedFirst ==
    [][ /\ (stack = <<>> /\ result'.op = "send_command" /\ call'.mid.type # "int") =>
              /\ result' = Raised("send_command",
                                  [kind |-> "TypeError",
                                   val |-> <<"mid must be of type int.">>])
              /\ stack' = <<>>
              /\ <<jid, is_open, sockobj, nsock, sent_last, wire>>' =
                     <<jid, is_open, sockobj, nsock, sent_last, wire>>
        /\ result'.kind = "TypeError" =>
              (stack = <<>> /\ call'.mid.type # "int" /\ jid' = jid /\ wire' = wire)
      ]_vars

\* send_command('16') has raised TypeError on a connected session that had
\* written a frame: counter and frames are those of before the call.
C19_Witness ==
    /\ result = Raised("send_command", NOT_INT)
    /\ call.mid = StrV(<<"1", "6">>)
    /\ call.open0
    /\ is_open
    /\ sockobj = "connected"
    /\ wire # <<>>
    /\ Len(wire) = call.w0
    /\ jid = call.jid
    /\ nsock = call.s0

-----------------------------------------------------------------------------
(* C20 *)

-----------------------------------------------------------------------------
(* C21 *)

\* The step ends a send_command call with an exception.
RaisedNow ==
    /\ result'.op = "send_command"
    /\ result'.kind \notin {"pending", "return"}
    /\ <<stack, result, jid, call>>' # <<stack, result, jid, call>>

\* C21: the step in which send_command raises, whatever the exception and
\* at whatever depth of a recovery, writes no frame and leaves no invocation
\* in progress: nothing is sent again; and an answer to a nested
\* stop-live-mode frame or to a retransmission that is not a success and
\* has no busy marker ends the call with an exception in the step that
\* reads it, the frame of the invocation below not being written again.
C21_FailuresAreNotRetried ==
    [][ /\ RaisedNow => (wire' = wire /\ stack' = <<>>)
        /\ ( /\ Len(stack) >= 2
             /\ Len(rcvd') = Len(rcvd) + 1
             /\ ~PlainSuccess(rcvd'[Len(rcvd')])
             /\ ~HasBusy(rcvd'[Len(rcvd')]) ) =>
               (RaisedNow /\ wire' = wire /\ jid' = jid)
        /\ (stack = <<>> /\ wire' # wire) =>
               (call'.jid = jid /\ call'.w0 = Len(wire))
      ]_vars

\* The stop-live-mode exchange of a recovery was answered with an error
\* code: the call has raised SHSWorksError after two frames.
C21_Witness ==
    /\ Done
    /\ result.kind = "SHSWorksError"
    /\ Len(rcvd) = 2
    /\ HasBusy(rcvd[1])
    /\ Len(sent) = 2
    /\ FrameMid(sent[2]) = CLOSE_LIVE
    /\ FrameMid(sent_last) = CLOSE_LIVE

-----------------------------------------------------------------------------
(* C22 *)

\* '<operation name>(): <exact wire text sent>' for a frame, CRLF stripped.
Attribution(frame) ==
    <<COMMANDS[FrameMid(frame) + 1], "(): ">> \o SubSeq(frame, 1, Len(frame) - 2)

\* part is a contiguous part of text.
Carries(text, part) ==
    \E k \in 0..(Len(text) - Len(part)) :
        SubSeq(text, k + 1, k + Len(part)) = part

\* The message has the attribution of one of the frames.
Attributes(text, frames) ==
    \E i \in 1..Len(frames) :
        /\ FrameMid(frames[i]) \in COMMAND_KEYS
        /\ Carries(text, Attribution(frames[i]))

\* The frames written, and the last frame handed to the socket if any.
FramesHandled == IF sent_last = <<>> THEN wire ELSE Append(wire, sent_last)

\* C22, as claimed: every ConnectionRefusedError, ConnectionResetError,
\* UnknownCommandError and SHSWorksError the session raises carries the
\* attribution of a command: of the last frame handed to the socket or of
\* one of the frames written.
C22_EveryErrorAttributed ==
    result.kind \in {"ConnectionRefusedError", "ConnectionResetError",
                     "UnknownCommandError", "SHSWorksError"}
        => Attributes(result.val, FramesHandled)

\* C22, amended: every ConnectionResetError, UnknownCommandError and
\* SHSWorksError raised by send_command carries the attribution of the last
\* frame handed to the socket; a ConnectionRefusedError carries the guidance
\* text and no attribution, also when send_command raises it; and the
\* errors that reach the caller as they were raised below send_command
\* (KeyError, IndexError, BrokenPipeError) carry none.
C22_AttributionExceptRefusal ==
    /\ result.kind \in {"ConnectionResetError", "UnknownCommandError", "SHSWorksError"}
          => /\ result.op = "send_command"
             /\ FrameMid(sent_last) \in COMMAND_KEYS
             /\ Carries(result.val, Attribution(sent_last))
    /\ result.kind \in {"ConnectionRefusedError", "KeyError", "IndexError",
                        "BrokenPipeError"}
          => /\ ~Contains(result.val, "(): ")
             /\ ~Attributes(result.val, FramesHandled)
    /\ result.kind = "ConnectionRefusedError"
          => result.val =
                <<"Please check if SHSWorks is running, TCP/IP is enabled and port is ",
                  "server_port">>

\* A send_command on a session that had written frames was refused the
\* connection: its error names no command.
C22_Witness ==
    /\ result.op = "send_command"
    /\ result.kind = "ConnectionRefusedError"
    /\ wire # <<>>
    /\ FrameMid(sent_last) \in COMMAND_KEYS
    /\ ~Contains(result.val, "(): ")

-----------------------------------------------------------------------------
(* C23 *)

\* C23, as claimed: a call that has read an answer of fewer than four
\* fields, with neither unknown-command variant nor the busy marker, ends
\* with SHSWorksError or UnexpectedAnswerFormatError: it does not return and
\* does not raise IndexError.
C23_ShortAnswerIsTypedFailure ==
    ( /\ Done
      /\ rcvd # <<>>
      /\ Len(SplitPipe(rcvd[Len(rcvd)])) < 4
      /\ ~HasUnknown(rcvd[Len(rcvd)])
      /\ ~HasBusy(rcvd[Len(rcvd)]) )
    => result.kind \in {"SHSWorksError", "UnexpectedAnswerFormatError"}

-----------------------------------------------------------------------------
(* C24 *)

\* The pass/fail method in progress has ended.
PfDone == wrap.op \in PF_METHODS /\ wrap.pc = "done"

\* The list the pass/fail method decoded was empty.
PfEmpty == wrap.list.type = "list" /\ wrap.list.v = <<>>

\* The payload of the answer the last send_command returned.
LastPayload == get_result(result.val)

\* The warning text that belongs to a payload of get_par('bPassFail').
PfWarning(payload) ==
    IF payload = <<>> \/ ParseInt(payload) = 0 THEN PF_OFF ELSE PF_NONE

\* C24, as claimed: a pass/fail method never returns an empty list; with an
\* empty decoded list it always ends with the UserWarning, after the one
\* exchange of get_par('bPassFail'); with a non-empty list it returns the
\* list after its own exchange only.
C24_EmptyListAlwaysWarns ==
    PfDone =>
        /\ ~(wrap.kind = "return" /\ wrap.val.v = <<>>)
        /\ PfEmpty => /\ wrap.kind = "UserWarning"
                      /\ wrap.val.v \in {PF_OFF, PF_NONE}
                      /\ call.mid = IntV(GET_PAR)
        /\ (wrap.list.type = "list" /\ wrap.list.v # <<>>)
              => wrap.kind = "return" /\ wrap.val = wrap.list /\ wrap.ncalls = 1

\* C24, amended: a pass/fail method never returns an empty list; with an
\* empty decoded list it makes exactly one further send_command call,
\* get_par's send_command(26, 'bPassFail'), and when that call returns a
\* value that is empty or a number it raises the UserWarning that belongs
\* to the value, while an exception of that call, or of the decoding of its
\* answer, reaches the caller in place of the warning; with a non-empty
\* list it returns the list after its one send_command call.
C24_EmptyListProbedOnce ==
    PfDone =>
        /\ ~(wrap.kind = "return" /\ wrap.val.v = <<>>)
        /\ PfEmpty =>
              /\ wrap.ncalls = 2
              /\ call.mid = IntV(GET_PAR)
              /\ call.args = <<StrV(B_PASS_FAIL)>>
              /\ FrameMid(wire[wrap.w0 + 1]) = pf_mid(wrap.op)
              /\ IF result.kind # "return"
                 THEN wrap.kind = result.kind
                 ELSE IF LastPayload = <<>> \/ IsNumber(LastPayload)
                 THEN /\ wrap.kind = "UserWarning"
                      /\ wrap.val.v = PfWarning(LastPayload)
                 ELSE wrap.kind = "ValueError"
        /\ (wrap.list.type = "list" /\ wrap.list.v # <<>>)
              => wrap.kind = "return" /\ wrap.val = wrap.list /\ wrap.ncalls = 1

\* get_pf_values decoded an empty list, asked for bPassFail in one exchange,
\* was answered 1, and raised 'No Passfail items are selected.'.
C24_Witness ==
    /\ PfDone
    /\ wrap.op = "get_pf_values"
    /\ PfEmpty
    /\ Len(wire) = wrap.w0 + 2
    /\ FrameMid(wire[Len(wire)]) = GET_PAR
    /\ LastPayload = <<"1">>
    /\ wrap.kind = "UserWarning"
    /\ wrap.val.v = PF_NONE

-----------------------------------------------------------------------------
(* C25 *)

\* get_par has returned a value to the caller.
ParReturned == wrap.op = "get_par" /\ wrap.pc = "done" /\ wrap.kind = "return"

\* The datatype that belongs to a parameter name.
Classified(par) ==
    IF par \in STRING_PARS THEN "str"
    ELSE IF par \in PATH_PARS THEN "Path"
    ELSE "int"

\* C25, as claimed: every value get_par returns, the empty one included,
\* has the datatype that belongs to the parameter name.
C25_ClassifiedByNameAlways ==
    ParReturned => wrap.val.type = Classified(wrap.arg)

\* C25, amended: when send_command(26, par) returns an answer, get_par
\* returns an empty value as the empty string whatever the name, and a
\* non-empty value by the classification of the name: as the string itself,
\* as a path of that string, or parsed as a number.
C25_ClassifiedByNameUnlessEmpty ==
    ( /\ wrap.op = "get_par"
      /\ wrap.pc = "done"
      /\ result.kind = "return" )
    => IF LastPayload = <<>>
       THEN wrap.kind = "return" /\ wrap.val = Typed("str", <<>>)
       ELSE IF Classified(wrap.arg) = "int"
       THEN IF IsNumber(LastPayload)
            THEN /\ wrap.kind = "return"
                 /\ wrap.val = Typed("int", ParseInt(LastPayload))
            ELSE wrap.kind # "return"
       ELSE /\ wrap.kind = "return"
            /\ wrap.val = Typed(Classified(wrap.arg), LastPayload)

\* get_par('cpRAYFile') was answered with an empty value and returned the
\* empty string.
C25_Witness ==
    /\ ParReturned
    /\ wrap.arg = <<"cpRAYFile">>
    /\ LastPayload = <<>>
    /\ wrap.val = Typed("str", <<>>)

-----------------------------------------------------------------------------
(* C26 *)

\* Two of the frames written carry the same job id.
DuplicateJobIds ==
    \E i, j \in 1..Len(wire) : i < j /\ FrameJid(wire[i]) = FrameJid(wire[j])

\* The last call of caller t raised an error with an attribution.
RaisedAttributed(t) ==
    /\ threads.t[t].pc = "idle"
    /\ threads.t[t].kind \in {"UnknownCommandError", "SHSWorksError"}

\* The error raised to caller t names the frame caller u sent, which is not
\* the frame t sent.
Misattributed(t, u) ==
    /\ RaisedAttributed(t)
    /\ threads.t[u].message # <<>>
    /\ threads.t[u].message # threads.t[t].message
    /\ Carries(threads.t[t].val, Attribution(threads.t[u].message))
    /\ ~Carries(threads.t[t].val, Attribution(threads.t[t].message))

\* C26: when the callers serialize whole send_command calls, no two frames
\* written carry the same job id, the job counter has counted every frame
\* written and the one about to be, and every error raised to a caller
\* names the frame that caller sent.
\* (That both failures happen without serialization is C26_Witness.)
C26_SerializedCallersAreSafe ==
    threads.serialized /\ threads.t # <<>> =>
        /\ ~DuplicateJobIds
        /\ jid = Len(wire) + Cardinality({t \in Callers :
                                             threads.t[t].pc \in {"counted", "recorded"}})
        /\ \A t \in Callers :
              RaisedAttributed(t)
                 => Carries(threads.t[t].val, Attribution(threads.t[t].message))

\* Without serialization: two frames written carry the same job id, and the
\* error raised to one caller names the frame of the other.
C26_Witness ==
    /\ ~threads.serialized
    /\ threads.t # <<>>
    /\ DuplicateJobIds
    /\ \E t, u \in Callers : Misattributed(t, u)

-----------------------------------------------------------------------------
(* C27 *)

\* C27, as claimed: whatever the reads are, every answer the receive loop
\* returns is a complete response of the service, and when send_command has
\* ended nothing of a response is left to read.
C27_ChunkingDoesNotMatter ==
    /\ \A i \in 1..Len(rcvd) : rcvd[i] \in ChunkResponses
    /\ stack = <<>> => inbound.buf = <<>>

-----------------------------------------------------------------------------
(* C28 *)

\* The opcode of the exchange in which the step fails: that of the call when
\* the step begins it, that of the innermost invocation when the step reads
\* its answer or loses the connection, and that of the invocation the step
\* goes on to when the write of its frame fails.
FailedMid ==
    IF stack = <<>> THEN call'.mid.v
    ELSE IF sent_last' = sent_last THEN Head(stack).mid
    ELSE IF HasBusy(rcvd'[Len(rcvd')]) THEN CLOSE_LIVE
    ELSE Head(Tail(stack)).mid

-----------------------------------------------------------------------------
(* C29 *)

\* The job-id field and the opcode field of a frame, as text.
JidField(frame) == SplitPipe(frame)[2]

MidField(frame) == SplitPipe(frame)[3]

\* The frame written last, and the one before it.
LastFrame == wire[Len(wire)]

FrameBefore == wire[Len(wire) - 1]

-----------------------------------------------------------------------------
(* C30 *)

\* The job id the answer echoes: every answer of the model echoes JID=001.
EchoedJid(ans) == IF SplitPipe(ans)[2] = <<"JID=001">> THEN 1 ELSE -1

\* The answer the call read last.
LastAnswer == rcvd[Len(rcvd)]

\* C30: when a call has ended after reading the answer to the frame of its
\* newest job id, and that answer has neither unknown-command variant nor
\* the busy marker and an error code that begins with '1=', the call has
\* returned exactly that answer, whether the job id it echoes is that of the
\* frame or another; and no call ends with an error about the echoed job id.
C30_EchoedJobIdIgnored ==
    /\ ( /\ Done
         /\ rcvd # <<>>
         /\ Len(wire) \in answered
         /\ FrameJid(wire[Len(wire)]) = jid - 1
         /\ PlainSuccess(LastAnswer) )
       => result = Returned("send_command", LastAnswer)
    /\ result.kind # "UnexpectedAnswerFormatError"

\* The first call of a new session wrote job id 000, read an answer that
\* echoes JID=001 with the error code '1=Ok', and returned it.
C30_Witness ==
    /\ Done
    /\ Len(wire) = 1
    /\ FrameJid(wire[1]) = 0
    /\ Len(rcvd) = 1
    /\ EchoedJid(LastAnswer) = 1
    /\ PlainSuccess(LastAnswer)
    /\ result = Returned("send_command", LastAnswer)

-----------------------------------------------------------------------------
(* C31 *)

\* The calls whose arguments the methods accept, among those the caller
\* makes.
AcceptedCalls ==
    { <<"load_setup", <<StrV(<<"s">>)>>>>,
      <<"set_cam_setting", <<StrV(<<"SHS">>), StrV(<<"AVE">>), IntV(8)>>>>,
      <<"select_field", <<IntV(33)>>>>,
      <<"get_pf_item_value", <<IntV(6)>>>>,
      <<"copy_data_from_to", <<IntV(33), IntV(1)>>>>,
      <<"get_field_stats", <<IntV(1), StrV(<<"ORG">>)>>>>,
      <<"set_pf_item_use", <<IntV(6), IntV(1)>>>> }

\* The method in progress has raised the error of an argument check.
ArgumentRejected ==
    /\ wrap.pc = "done"
    /\ wrap.ncalls = 0
    /\ wrap.kind \in {"TypeError", "ValueError", "KeyError"}

\* Nothing of the session has changed since the method was called.
SessionAsAtEntry ==
    /\ Len(wire) = wrap.w0
    /\ jid = wrap.j0
    /\ nsock = wrap.s0
    /\ is_open = wrap.open0
    /\ stack = <<>>

\* C31: a call of load_setup, select_field, get_pf_item_value,
\* set_pf_item_use, copy_data_from_to, get_field_stats or set_cam_setting
\* with arguments the method does not accept has raised the argument error
\* without a send_command call: no frame written, no socket created, the
\* open flag and the job counter as they were; and a method that has ended
\* with such an error before any send_command call was called with such
\* arguments.
C31_RejectedBeforeSendCommand ==
    wrap.op \in VALIDATED =>
        /\ <<wrap.op, wrap.arg>> \notin AcceptedCalls
              => (ArgumentRejected /\ SessionAsAtEntry)
        /\ (wrap.pc = "done" /\ wrap.ncalls = 0)
              => (ArgumentRejected /\ <<wrap.op, wrap.arg>> \notin AcceptedCalls)

\* On a session that has written a frame, set_pf_item_use(6, 2) has raised
\* ValueError: still one frame, and the job counter as before the call.
C31_Witness ==
    /\ wrap.op = "set_pf_item_use"
    /\ wrap.arg = <<IntV(6), IntV(2)>>
    /\ ArgumentRejected
    /\ wrap.kind = "ValueError"
    /\ Len(wire) >= 1
    /\ SessionAsAtEntry
    /\ jid >= 1

====
